---- MODULE Spec2Model ----
(***************************************************************************)
(* A model of src/investment_evaluation/file_parser.py: the retry          *)
(* decorator, FileParser.check_file_size, FileParser.identify_format,      *)
(* FileParser.parse_file and the six extractors it dispatches to.          *)
(*                                                                         *)
(* One behaviour of Spec is one call parse_file(file_path) on one file in  *)
(* one environment (python-magic present or not, a budget of transient     *)
(* I/O faults).  One behaviour of RetrySpec is one call of a function      *)
(* wrapped by retry(max_attempts, delay) whose attempts succeed or fail    *)
(* as the environment decides.                                             *)
(***************************************************************************)
EXTENDS Integers, Sequences, FiniteSets, TLC

VARIABLES
    file,            \* the file at file_path, as the filesystem holds it
    MAGIC_AVAILABLE, \* module global set by the import at lines 22-27
    faults,          \* faults (transient I/O, OCR engine) the environment may still inject
    pc,              \* stage of the parse_file call (or of the retry harness)
    now,             \* time.time()
    start_time,      \* parse_file's local start_time
    file_format,     \* parse_file's local file_format (or "unset")
    parsing_func,    \* parse_file's local parsing_func
    gen,             \* the generator object returned by parsing_func(file_path)
    result,          \* parse_file's local result
    pbar,            \* tqdm's counter pbar.n
    wrapper,         \* the active frame of retry's wrapper
    outcome,         \* what the call gave its caller: nothing yet, a value or an exception
    invoked,         \* history: how often each function body was entered
    yielded,         \* history: the chunks the generator handed to the for loop
    sleeps,          \* history: the time.sleep calls made, in order
    oplog,           \* history: the outcome of every attempt made through the wrapper
    checks,          \* history: how often the deadline comparison at line 135 was evaluated
    contentRead,     \* history: whether any byte of the file's content was read
    extracted,       \* the members written below <file_path>_extracted, in order
    ocr_calls,       \* history: the calls parse_pdf made to ocr_pdf_page, in order
    previous,        \* history: what the earlier calls on this FileParser gave
    started_at,      \* history: the clock when the call passed line 111
    parked,          \* the locals of a concurrent call that is not running now
    trail            \* history: the stages the call has passed through

vars == << file, MAGIC_AVAILABLE, faults, pc, now, start_time, file_format,
           parsing_func, gen, result, pbar, wrapper, outcome, invoked, yielded,
           sleeps, oplog, checks, contentRead, extracted, ocr_calls, previous,
           started_at, parked, trail >>

----------------------------------------------------------------------------
(* Program constants *)

MAX_FILE_SIZE == 100 * 1024 * 1024

MAX_PROCESSING_TIME == 300

\* retry(max_attempts=3, delay=2) as written at every decorated method
DECORATOR_MAX_ATTEMPTS == 3

DECORATOR_DELAY == 2

\* retry's own default for delay
DEFAULT_DELAY == 1

\* pbar.update(10) and tqdm(total=100)
PBAR_STEP == 10

PBAR_TOTAL == 100

(* Bounds of the model *)

\* the most paragraphs of a long document
MaxParagraphs == 11

\* the most units (lines, pages, members, rows, paragraphs) a file holds
MaxChunks == 2

\* the most transient I/O faults the environment injects into one call
MaxFaults == 1

\* the largest max_attempts the retry harness is run with
MaxAttempts == 3

----------------------------------------------------------------------------
(* Exceptions.  An exception is [cls, msg, at]: its class, its message and  *)
(* the ordinal of the attempt or unit during which it was raised.          *)

\* the direct base class of every exception class the module meets
Base(cls) ==
    CASE cls = "FileTooLargeError"        -> "FileParserError"
      [] cls = "ProcessingTimeoutError"   -> "FileParserError"
      [] cls = "UnsupportedFileTypeError" -> "FileParserError"
      [] cls = "ParseError"               -> "FileParserError"
      [] cls = "FileParserError"          -> "Exception"
      [] cls = "FileNotFoundError"        -> "OSError"
      [] cls = "PermissionError"          -> "OSError"
      [] cls = "ConnectionError"          -> "OSError"
      [] cls = "OSError"                  -> "Exception"
      [] cls = "BadZipFile"               -> "Exception"
      [] cls = "PdfReadError"             -> "Exception"
      [] cls = "PackageNotFoundError"     -> "Exception"
      [] cls = "InvalidFileException"     -> "Exception"
      [] cls = "UnidentifiedImageError"   -> "OSError"
      [] cls = "TypeError"                -> "Exception"
      [] cls = "ValueError"               -> "Exception"
      [] cls = "KeyError"                 -> "LookupError"
      [] cls = "LookupError"              -> "Exception"
      [] cls = "TesseractError"           -> "RuntimeError"
      [] cls = "RuntimeError"             -> "Exception"
      [] OTHER                            -> "BaseException"

RECURSIVE IsSubclass(_, _)
IsSubclass(cls, of) ==
    IF cls = of THEN TRUE
    ELSE IF cls = "BaseException" THEN FALSE
    ELSE IsSubclass(Base(cls), of)

Exc(cls, msg, at) == [cls |-> cls, msg |-> msg, at |-> at]

\* `except FileParserError`
IsFileParserError(e) == IsSubclass(e.cls, "FileParserError")

\* (variant of IsTransient: a bare `except Exception`)
IsAnyException(e) == IsSubclass(e.cls, "Exception")

\* `except (IOError, ConnectionError)`: IOError is an alias of OSError
IsTransient(e) == IsSubclass(e.cls, "OSError") \/ IsSubclass(e.cls, "ConnectionError")

----------------------------------------------------------------------------
(* Strings *)

\* Python's `sub in s`
Contains(s, sub) ==
    \E i \in 1..(Len(s) - Len(sub) + 1) : SubSeq(s, i, i + Len(sub) - 1) = sub

\* Python's s.endswith(suffix)
EndsWith(s, suffix) ==
    /\ Len(s) >= Len(suffix)
    /\ SubSeq(s, Len(s) - Len(suffix) + 1, Len(s)) = suffix

\* Python's None, where a string is expected
None == "<None>"

----------------------------------------------------------------------------
(* retry (lines 52-67) *)

\* what one attempt `func(*args, **kwargs)` gives the wrapper
Returned(v) == [kind |-> "ok", value |-> v, err |-> Exc("", "", 0)]

Raised(e) == [kind |-> "raise", value |-> None, err |-> e]

\* the wrapper's frame when entered: attempts = 0
Frame(func, max_attempts, delay) ==
    [func |-> func, max_attempts |-> max_attempts, delay |-> delay, attempts |-> 0]

NoFrame == Frame("", 0, 0)

\* (variant of RetryIteration: the sleep made before the test of line 62)
RetryIterationSleepsFirst(o, w) ==
    IF o.kind = "ok"
    THEN [status |-> "returned", value |-> o.value, err |-> o.err,
          attempts |-> w.attempts, slept |-> << >>]
    ELSE IF IsTransient(o.err)
    THEN IF w.attempts + 1 = w.max_attempts
         THEN [status |-> "raised", value |-> None, err |-> o.err,
               attempts |-> w.attempts + 1, slept |-> << w.delay >>]
         ELSE [status |-> "again", value |-> None, err |-> o.err,
               attempts |-> w.attempts + 1, slept |-> << w.delay >>]
    ELSE [status |-> "raised", value |-> None, err |-> o.err,
          attempts |-> w.attempts, slept |-> << >>]

\* (variant of RetryIteration: a delay that grows with the attempts made)
RetryIterationBackoff(o, w) ==
    IF o.kind = "ok"
    THEN [status |-> "returned", value |-> o.value, err |-> o.err,
          attempts |-> w.attempts, slept |-> << >>]
    ELSE IF IsTransient(o.err)
    THEN IF w.attempts + 1 = w.max_attempts
         THEN [status |-> "raised", value |-> None, err |-> o.err,
               attempts |-> w.attempts + 1, slept |-> << >>]
         ELSE [status |-> "again", value |-> None, err |-> o.err,
               attempts |-> w.attempts + 1,
               slept |-> << w.delay * (w.attempts + 1) >>]
    ELSE [status |-> "raised", value |-> None, err |-> o.err,
          attempts |-> w.attempts, slept |-> << >>]

\* One iteration of `while attempts < max_attempts` in frame w, the attempt
\* having given o: the frame's new attempts, whether the wrapper returns,
\* raises or goes round again, and the sleeps it made.
RetryIteration(o, w) ==
    IF o.kind = "ok"
    THEN [status |-> "returned", value |-> o.value, err |-> o.err,
          attempts |-> w.attempts, slept |-> << >>]
    ELSE IF IsTransient(o.err)
    THEN IF w.attempts + 1 = w.max_attempts
         THEN [status |-> "raised", value |-> None, err |-> o.err,
               attempts |-> w.attempts + 1, slept |-> << >>]
         ELSE [status |-> "again", value |-> None, err |-> o.err,
               attempts |-> w.attempts + 1, slept |-> << w.delay >>]
    ELSE [status |-> "raised", value |-> None, err |-> o.err,
          attempts |-> w.attempts, slept |-> << >>]

\* the six extractors are generator functions (their bodies hold `yield`):
\* calling one runs none of its body and returns a generator object
Extractors ==
    {"parse_zip", "parse_pdf", "parse_text", "parse_docx", "parse_xlsx", "parse_image"}

\* what the call `func(*args, **kwargs)` at line 59 gives for an extractor
CallExtractor(func) == Returned("generator")

----------------------------------------------------------------------------
(* Files and the environment *)

Paths == {"a.zip", "a.pdf", "a.txt", "a.docx", "a.xlsx", "a.jpg", "a.dat"}

\* labels libmagic's from_file gives
MagicLabels ==
    { "application/zip", "application/pdf", "text/plain", "application/msword",
      "application/vnd.ms-excel", "image/jpeg", "application/octet-stream",
      "application/vnd.openxmlformats-officedocument.wordprocessingml.document" }

\* the text of one unit of a file: a line, a page, a member name, a row, ...
Units == {"a", "b"}

UnitSeqs == UNION { [1..n -> Units] : n \in 0..MaxChunks }

Sizes == {MAX_FILE_SIZE - 1, MAX_FILE_SIZE, MAX_FILE_SIZE + 1}

\* A PDF page's /Resources.  has_resources and has_xobject say whether the
\* keys /Resources and /XObject are there; xobjects lists the entries of
\* /XObject in the order a loop over the dictionary meets them.
Resources(xs) == [has_resources |-> TRUE, has_xobject |-> TRUE, xobjects |-> xs]

\* a page with no /XObject among its resources (a page of text only)
NoResources == [has_resources |-> TRUE, has_xobject |-> FALSE, xobjects |-> << >>]

\* An image XObject: its /Filter, /ColorSpace (None: the key is missing) and
\* /BitsPerComponent, whether PIL can build an image from its data, and what
\* pytesseract gives for that image (engine = "fails": it raises).
ImageXObject(filter, colorspace, bpc, decodes, engine, text) ==
    [subtype |-> "/Image", direct |-> FALSE, filter |-> filter,
     colorspace |-> colorspace, bpc |-> bpc, decodes |-> decodes,
     engine |-> engine, text |-> text, bytes_contents |-> FALSE, temp_pages |-> << >>]

\* A form XObject.  direct: the entry of /XObject holds the dictionary itself,
\* not an indirect reference to it; bytes_contents: its /Contents (b'' when
\* missing) is a bytes object; temp_pages: the pages PdfReader finds in
\* b'%PDF-1.7\n' + content + b'\n%%EOF' (none: PdfReader or pages[0] raises),
\* each given by its resources.
FormXObject(direct, bytes_contents, temp_pages) ==
    [subtype |-> "/Form", direct |-> direct, filter |-> "", colorspace |-> None,
     bpc |-> 0, decodes |-> FALSE, engine |-> "ok", text |-> "",
     bytes_contents |-> bytes_contents, temp_pages |-> temp_pages]

\* The pages a PDF file is made of: what extract_text() gives for the page
\* (None where it gives nothing) and the page's resources.
PageKinds ==
    { \* text pages
      [text |-> "a",    res |-> NoResources],
      [text |-> " b ",  res |-> Resources(<< ImageXObject("/FlateDecode", "/DeviceRGB",
                                                          8, TRUE, "ok", "x") >>)],
      \* a scanned page: one RGB image the engine reads
      [text |-> "",     res |-> Resources(<< ImageXObject("/FlateDecode", "/DeviceRGB",
                                                          8, TRUE, "ok", "x") >>)],
      \* a CMYK image, skipped, then a bilevel image the engine reads
      [text |-> " \n",  res |-> Resources(<< ImageXObject("/FlateDecode", "/DeviceCMYK",
                                                          8, TRUE, "ok", "w"),
                                             ImageXObject("/FlateDecode", "/DeviceGray",
                                                          1, TRUE, "ok", "y") >>)],
      \* a JPEG on which the engine fails
      [text |-> " ",    res |-> Resources(<< ImageXObject("/DCTDecode", "/DeviceRGB",
                                                          8, TRUE, "fails", "") >>)],
      \* an empty page without any XObject
      [text |-> None,   res |-> NoResources],
      \* a form held directly, whose content parses to a page with an image
      [text |-> "\t",   res |-> Resources(<< FormXObject(TRUE, TRUE,
                                << Resources(<< ImageXObject("/DCTDecode", "/DeviceGray",
                                                             8, TRUE, "ok", "z") >>) >>) >>)],
      \* a form held by reference (never looked into), 4-bit image skipped
      [text |-> "",     res |-> Resources(<< FormXObject(FALSE, TRUE, << >>),
                                             ImageXObject("/FlateDecode", "/DeviceGray",
                                                          4, TRUE, "ok", "v") >>)],
      \* two forms held directly: the first draws no image, the second holds one
      [text |-> "",     res |-> Resources(<< FormXObject(TRUE, TRUE, << NoResources >>),
                                             FormXObject(TRUE, TRUE,
                                << Resources(<< ImageXObject("/DCTDecode", "/DeviceRGB",
                                                             8, TRUE, "ok", "u") >>) >>) >>)],
      \* a form within a form, the inner one with an image
      [text |-> " ",    res |-> Resources(<< FormXObject(TRUE, TRUE,
                                << Resources(<< FormXObject(TRUE, TRUE,
                                << Resources(<< ImageXObject("/FlateDecode", "/DeviceRGB",
                                                8, TRUE, "ok", "t") >>) >>) >>) >>) >>)] }

PageSeqs == UNION { [1..n -> PageKinds] : n \in 0..MaxChunks }

\* A cell of a worksheet as iter_rows(values_only=True) gives it: None for a
\* blank cell, else a string or a number.
BlankCell == [t |-> "none", v |-> None]

StrCell(v) == [t |-> "str", v |-> v]

IntCell(v) == [t |-> "int", v |-> v]

\* the rows a worksheet is made of
RowKinds ==
    { << StrCell("a") >>,
      << BlankCell, StrCell("b") >>,
      << StrCell("a"), BlankCell, IntCell(0) >>,
      << BlankCell, BlankCell >>,
      << >> }

RowSeqs(n) == [1..n -> RowKinds]

\* workbooks of one sheet "S" or of two sheets "S" and "T", of MaxChunks rows
\* at most in all
Workbooks ==
    { << [name |-> "S", rows |-> rs] >> : rs \in UNION { RowSeqs(n) : n \in 0..MaxChunks } }
      \cup
    UNION { { << [name |-> "S", rows |-> rs], [name |-> "T", rows |-> rt] >> :
                 rs \in RowSeqs(nm[1]), rt \in RowSeqs(nm[2]) } :
            nm \in { p \in (0..MaxChunks) \X (0..MaxChunks) : p[1] + p[2] <= MaxChunks } }

\* the workbook of one sheet "S" whose rows hold one text cell each
OneColumn(u) ==
    << [name |-> "S", rows |-> [i \in 1..Len(u) |-> << StrCell(u[i]) >>]] >>

ExistingFiles ==
    { [path |-> p, exists |-> TRUE, size |-> s, magic |-> m, units |-> u,
       corrupt |-> c, res |-> [i \in 1..Len(u) |-> NoResources],
       sheets |-> OneColumn(u)] :
         p \in Paths, s \in Sizes, m \in MagicLabels, u \in UnitSeqs, c \in BOOLEAN }

MissingFiles ==
    { [path |-> p, exists |-> FALSE, size |-> 0, magic |-> None, units |-> << >>,
       corrupt |-> FALSE, res |-> << >>, sheets |-> << >>] : p \in Paths }

\* a byte that is part of no valid sequence of the encoding
InvalidByte == "#"

\* the bytes of the lines a text file is made of, without their newline
LineKinds == {"a", "b" \o InvalidByte, InvalidByte \o "a" \o InvalidByte \o "b",
              InvalidByte, ""}

\* text files, named and sniffed as such
TextFiles ==
    { [path |-> "a.txt", exists |-> TRUE, size |-> s, magic |-> "text/plain",
       units |-> u, corrupt |-> c, res |-> [i \in 1..Len(u) |-> NoResources],
       sheets |-> << >>] :
         s \in Sizes, u \in UNION { [1..n -> LineKinds] : n \in 0..MaxChunks },
         c \in BOOLEAN }

\* XLSX files, named as such
XlsxFiles ==
    { [path |-> "a.xlsx", exists |-> TRUE, size |-> s,
       magic |-> "application/vnd.ms-excel", units |-> << >>,
       corrupt |-> c, res |-> << >>, sheets |-> w] :
         s \in Sizes, w \in Workbooks, c \in BOOLEAN }

\* PDF files, named and sniffed as such
PdfFiles ==
    { [path |-> "a.pdf", exists |-> TRUE, size |-> s, magic |-> "application/pdf",
       units |-> [i \in 1..Len(ps) |-> ps[i].text],
       corrupt |-> c, res |-> [i \in 1..Len(ps) |-> ps[i].res],
       sheets |-> << >>] :
         s \in Sizes, ps \in PageSeqs, c \in BOOLEAN }

Files == ExistingFiles \cup MissingFiles

\* how long one step (an identification, the production of one chunk) takes
Durations == {0, 150, 151, 301}

\* mimetypes.guess_type(file_path)[0]
guess_type(path) ==
    CASE EndsWith(path, ".zip")  -> "application/zip"
      [] EndsWith(path, ".pdf")  -> "application/pdf"
      [] EndsWith(path, ".txt")  -> "text/plain"
      [] EndsWith(path, ".docx") ->
            "application/vnd.openxmlformats-officedocument.wordprocessingml.document"
      [] EndsWith(path, ".xlsx") ->
            "application/vnd.openxmlformats-officedocument.spreadsheetml.sheet"
      [] EndsWith(path, ".jpg")  -> "image/jpeg"
      [] OTHER                   -> None

----------------------------------------------------------------------------
(* FileParser.check_file_size (lines 77-81) *)

\* (variants of check_file_size: a non-strict comparison; no check at all)
check_file_size_nonstrict(f) ==
    IF f.size >= MAX_FILE_SIZE
    THEN Raised(Exc("FileTooLargeError", "File is too large", 0))
    ELSE Returned(None)

check_file_size_absent(f) == Returned(None)

check_file_size(f) ==
    IF f.size > MAX_FILE_SIZE
    THEN Raised(Exc("FileTooLargeError", "File is too large", 0))
    ELSE Returned(None)

\* (variant of IdentifyHandler: the exception let through as it is)
IdentifyHandlerAbsent(e) == e

\* identify_format's handler `except Exception` (lines 99-101)
IdentifyHandler(e) ==
    IF IsSubclass(e.cls, "Exception")
    THEN Exc("FileParserError", "Failed to identify file format", e.at)
    ELSE e

\* (variant of identify_format: no fallback to the extension guess)
identify_format_nofallback(f, magicAvailable, io) ==
    IF magicAvailable
    THEN IF io = "io"
         THEN Raised(IdentifyHandler(Exc("OSError", "read failed", 0)))
         ELSE Returned([extension_guess |-> guess_type(f.path),
                        content_guess |-> f.magic])
    ELSE Returned([extension_guess |-> guess_type(f.path), content_guess |-> None])

(* FileParser.identify_format, the decorated body (lines 84-101).  io is    *)
(* what reading the file does: "none" (it works) or "io" (an OSError).      *)
identify_format(f, magicAvailable, io) ==
    LET extension_guess == guess_type(f.path)
    IN  IF magicAvailable
        THEN IF io = "io"
             THEN Raised(IdentifyHandler(Exc("OSError", "read failed", 0)))
             ELSE Returned([extension_guess |-> extension_guess,
                            content_guess |-> f.magic])
        ELSE Returned([extension_guess |-> extension_guess,
                       content_guess |-> extension_guess])

\* (variant of Dispatch: the suffix rules tried before the content rules)
DispatchSuffixFirst(content_guess, path) ==
    IF content_guess = None
    THEN Raised(Exc("TypeError", "argument of type 'NoneType' is not iterable", 0))
    ELSE IF EndsWith(path, ".docx") THEN Returned("parse_docx")
    ELSE IF EndsWith(path, ".xlsx") THEN Returned("parse_xlsx")
    ELSE IF Contains(content_guess, "zip") THEN Returned("parse_zip")
    ELSE IF Contains(content_guess, "pdf") THEN Returned("parse_pdf")
    ELSE IF Contains(content_guess, "text") THEN Returned("parse_text")
    ELSE IF Contains(content_guess, "word") THEN Returned("parse_docx")
    ELSE IF Contains(content_guess, "excel") THEN Returned("parse_xlsx")
    ELSE IF Contains(content_guess, "image") THEN Returned("parse_image")
    ELSE Raised(Exc("UnsupportedFileTypeError", "Unsupported file format", 0))

(* The dispatch of parse_file (lines 114-128) *)
Dispatch(content_guess, path) ==
    IF content_guess = None
    THEN Raised(Exc("TypeError", "argument of type 'NoneType' is not iterable", 0))
    ELSE IF Contains(content_guess, "zip") THEN Returned("parse_zip")
    ELSE IF Contains(content_guess, "pdf") THEN Returned("parse_pdf")
    ELSE IF Contains(content_guess, "text") THEN Returned("parse_text")
    ELSE IF Contains(content_guess, "word") \/ EndsWith(path, ".docx")
         THEN Returned("parse_docx")
    ELSE IF Contains(content_guess, "excel") \/ EndsWith(path, ".xlsx")
         THEN Returned("parse_xlsx")
    ELSE IF Contains(content_guess, "image") THEN Returned("parse_image")
    ELSE Raised(Exc("UnsupportedFileTypeError", "Unsupported file format", 0))

\* (variant of ParseFileHandlers: without `except FileParserError: raise`)
ParseFileHandlersWrapAll(e) ==
    IF IsSubclass(e.cls, "Exception")
    THEN Exc("ParseError", "Failed to parse file", e.at)
    ELSE e

\* the two handlers that end parse_file's try block (lines 140-144)
ParseFileHandlers(e) ==
    IF IsFileParserError(e) THEN e
    ELSE IF IsSubclass(e.cls, "Exception")
         THEN Exc("ParseError", "Failed to parse file", e.at)
         ELSE e

----------------------------------------------------------------------------
(* The extractors (lines 146-178 and 250-299) *)

\* the exception the library raises on a file that is not of the format
StructuralError(func) ==
    CASE func = "parse_zip"   -> "BadZipFile"
      [] func = "parse_pdf"   -> "PdfReadError"
      [] func = "parse_docx"  -> "PackageNotFoundError"
      [] func = "parse_xlsx"  -> "InvalidFileException"
      [] func = "parse_image" -> "UnidentifiedImageError"
      [] OTHER                -> "UnicodeDecodeError"

\* open(file_path, 'r', errors='ignore') accepts any bytes
OpenFails(func, f) == f.corrupt /\ func # "parse_text"

\* the except clauses that end every extractor's body: the named class first,
\* then `except Exception`; both raise ParseError
ExtractorHandlers(func, e) ==
    IF e.cls = StructuralError(func)
        \/ (func = "parse_zip" /\ e.cls = "PermissionError")
    THEN Exc("ParseError", "not a valid file: " \o e.cls, e.at)
    ELSE IF IsSubclass(e.cls, "Exception")
    THEN Exc("ParseError", "Error parsing file: " \o e.cls, e.at)
    ELSE e

RECURSIVE Sum(_)
Sum(ds) == IF ds = << >> THEN 0 ELSE Head(ds) + Sum(Tail(ds))

\* `page.extract_text() or ''` (line 171)
ExtractedText(t) == IF t = None \/ t = "" THEN "" ELSE t

\* characters str.strip() removes
Whitespace == {" ", "\t", "\n"}

RECURSIVE LStrip(_)
LStrip(s) ==
    IF Len(s) > 0 /\ SubSeq(s, 1, 1) \in Whitespace
    THEN LStrip(SubSeq(s, 2, Len(s)))
    ELSE s

RECURSIVE RStrip(_)
RStrip(s) ==
    IF Len(s) > 0 /\ SubSeq(s, Len(s), Len(s)) \in Whitespace
    THEN RStrip(SubSeq(s, 1, Len(s) - 1))
    ELSE s

\* Python's s.strip()
Strip(s) == RStrip(LStrip(s))

\* (variant of NeedsOcr: `if not text`)
NeedsOcrEmptyOnly(text) == Len(text) = 0

\* `not text.strip()` (line 172)
NeedsOcr(text) == Len(Strip(text)) = 0

\* nothing returned and nothing raised
Nothing == [kind |-> "none", value |-> None, err |-> Exc("", "", 0)]

\* (variant of ScanImages: only JPEG streams are read, any other image is
\* passed over)
RECURSIVE ScanImagesJpegOnly(_, _)
ScanImagesJpegOnly(xs, k) ==
    IF k > Len(xs) THEN Nothing
    ELSE LET x == xs[k]
             ocr == IF x.engine = "fails"
                    THEN Raised(Exc("TesseractError", "tesseract failed", k))
                    ELSE Returned(x.text)
         IN  IF x.subtype # "/Image" THEN ScanImagesJpegOnly(xs, k + 1)
             ELSE IF x.colorspace = None
             THEN Raised(Exc("KeyError", "/ColorSpace", k))
             ELSE IF x.filter = "/DCTDecode"
             THEN IF x.decodes THEN ocr
                  ELSE Raised(Exc("UnidentifiedImageError", "cannot identify image", k))
             ELSE ScanImagesJpegOnly(xs, k + 1)

\* Lines 194-230: the loop over the XObjects from the k-th on.  It returns
\* the OCR text of the first image it can build, raises what a lookup, PIL or
\* pytesseract raises, or ends without either.
RECURSIVE ScanImages(_, _)
ScanImages(xs, k) ==
    IF k > Len(xs) THEN Nothing
    ELSE LET x == xs[k]
             ocr == IF x.engine = "fails"
                    THEN Raised(Exc("TesseractError", "tesseract failed", k))
                    ELSE Returned(x.text)
         IN  IF x.subtype # "/Image" THEN ScanImages(xs, k + 1)
             ELSE IF x.colorspace = None
             THEN Raised(Exc("KeyError", "/ColorSpace", k))
             ELSE IF x.filter = "/DCTDecode"
             THEN IF x.decodes THEN ocr
                  ELSE Raised(Exc("UnidentifiedImageError", "cannot identify image", k))
             ELSE IF x.colorspace \notin {"/DeviceRGB", "/DeviceGray"}
             THEN ScanImages(xs, k + 1)
             ELSE IF x.bpc \in {8, 1}
             THEN IF x.decodes THEN ocr
                  ELSE Raised(Exc("ValueError", "not enough image data", k))
             ELSE ScanImages(xs, k + 1)

RECURSIVE ocr_pdf_page(_)

\* Lines 233-242: the loop over the items of /XObject from the k-th on; the
\* first form held directly whose content is bytes ends it
RECURSIVE ScanForms(_, _)
ScanForms(xs, k) ==
    IF k > Len(xs) THEN Nothing
    ELSE LET x == xs[k]
         IN  IF x.direct /\ x.subtype = "/Form" /\ x.bytes_contents
             THEN IF x.temp_pages = << >>
                  THEN Raised(Exc("PdfReadError", "EOF marker not found", k))
                  ELSE Returned(ocr_pdf_page(x.temp_pages[1]))
             ELSE ScanForms(xs, k + 1)

\* the body of ocr_pdf_page's try block (lines 192-245)
OcrPageBody(page) ==
    IF ~page.has_resources THEN Raised(Exc("KeyError", "/Resources", 0))
    ELSE LET images == IF page.has_xobject THEN ScanImages(page.xobjects, 1)
                       ELSE Nothing
         IN  IF images # Nothing THEN images
             ELSE IF ~page.has_xobject THEN Raised(Exc("KeyError", "/XObject", 0))
             ELSE LET forms == ScanForms(page.xobjects, 1)
                  IN  IF forms # Nothing THEN forms ELSE Returned("")

\* FileParser.ocr_pdf_page (lines 189-248): `except Exception` returns ""
ocr_pdf_page(page) ==
    LET o == OcrPageBody(page)
    IN  IF o.kind = "raise" /\ IsSubclass(o.err.cls, "Exception") THEN "" ELSE o.value

\* Lines 233-237: the position, from the k-th on, of the form the loop stops
\* at, or 0 when it runs to its end
RECURSIVE FirstForm(_, _)
FirstForm(xs, k) ==
    IF k > Len(xs) THEN 0
    ELSE IF xs[k].direct /\ xs[k].subtype = "/Form" /\ xs[k].bytes_contents THEN k
    ELSE FirstForm(xs, k + 1)

\* (variant of NestedCalls: a recursive call for every form of the page)
RECURSIVE NestedCallsEveryForm(_)
NestedCallsEveryForm(page) ==
    IF page.has_resources /\ page.has_xobject
          /\ ScanImages(page.xobjects, 1) = Nothing
    THEN Sum([k \in 1..Len(page.xobjects) |->
                IF page.xobjects[k].subtype = "/Form"
                      /\ page.xobjects[k].temp_pages # << >>
                THEN 1 + NestedCallsEveryForm(page.xobjects[k].temp_pages[1])
                ELSE 0])
    ELSE 0

\* how many calls of ocr_pdf_page are nested within ocr_pdf_page(page): one
\* when line 242 is reached, and those nested within that one
RECURSIVE NestedCalls(_)
NestedCalls(page) ==
    IF page.has_resources /\ page.has_xobject
          /\ ScanImages(page.xobjects, 1) = Nothing
    THEN LET k == FirstForm(page.xobjects, 1)
         IN  IF k > 0 /\ page.xobjects[k].temp_pages # << >>
             THEN 1 + NestedCalls(page.xobjects[k].temp_pages[1])
             ELSE 0
    ELSE 0

\* the text of the i-th page as parse_pdf emits it (lines 171-173)
PageText(f, i) ==
    LET text == ExtractedText(f.units[i])
    IN  IF NeedsOcr(text) THEN ocr_pdf_page(f.res[i]) ELSE text

RECURSIVE Concat(_)
Concat(ss) == IF ss = << >> THEN "" ELSE Head(ss) \o Concat(Tail(ss))

\* the bytes of a text file: its lines, each ended by a newline
Content(f) == Concat([i \in 1..Len(f.units) |-> f.units[i] \o "\n"])

\* (variant of Decode: errors='replace', a mark in place of every invalid byte)
RECURSIVE DecodeReplace(_)
DecodeReplace(bytes) ==
    IF Len(bytes) = 0 THEN ""
    ELSE (IF SubSeq(bytes, 1, 1) = InvalidByte THEN "?" ELSE SubSeq(bytes, 1, 1))
            \o DecodeReplace(SubSeq(bytes, 2, Len(bytes)))

\* what decoding makes of the first k bytes
RECURSIVE DecodeUpTo(_, _)
DecodeUpTo(bytes, k) ==
    IF k = 0 THEN ""
    ELSE DecodeUpTo(bytes, k - 1)
            \o (IF SubSeq(bytes, k, k) = InvalidByte THEN "" ELSE SubSeq(bytes, k, k))

\* what open(file_path, 'r', errors='ignore') makes of the bytes read
\* (line 254): the invalid ones are left out
Decode(bytes) == DecodeUpTo(bytes, Len(bytes))

\* `for line in file` (line 255): the decoded text cut after every newline,
\* and what follows the last newline if anything does
Lines(text) ==
    LET nl       == {i \in 1..Len(text) : SubSeq(text, i, i) = "\n"}
        n        == Cardinality(nl)
        End(k)   == CHOOSE p \in nl : Cardinality({q \in nl : q <= p}) = k
        Begin(k) == IF k = 1 THEN 1 ELSE End(k - 1) + 1
        ended    == [k \in 1..n |-> SubSeq(text, Begin(k), End(k))]
        rest     == IF n = 0 THEN 1 ELSE End(n) + 1
    IN  IF rest <= Len(text)
        THEN Append(ended, SubSeq(text, rest, Len(text)))
        ELSE ended

\* the lines a text file may hold
LineSeqs == UNION { [1..n -> Units \cup LineKinds] : n \in 0..MaxChunks }

\* the lines read from each text file, tabulated by the file's content
LinesRead == [u \in LineSeqs |-> Lines(Decode(Content([units |-> u])))] @@ << >>

\* the chunks parse_text yields
TextChunks(f) == LinesRead[f.units]

\* str(cell)
CellStr(c) == IF c.t = "int" THEN ToString(c.v) ELSE c.v

\* (variant of IsNotNone: `if cell`, which also drops 0 and '')
IsTruthy(c) == c.t # "none" /\ (c.t = "int" => c.v # 0) /\ (c.t = "str" => c.v # "")

\* `cell is not None`
IsNotNone(c) == c.t # "none"

\* sep.join(strs)
RECURSIVE Join(_, _)
Join(sep, strs) ==
    IF strs = << >> THEN ""
    ELSE IF Len(strs) = 1 THEN strs[1]
    ELSE strs[1] \o sep \o Join(sep, Tail(strs))

\* `' | '.join(str(cell) for cell in row if cell is not None)` (line 284)
JoinRow(row) ==
    LET kept == SelectSeq(row, IsNotNone)
    IN  Join(" | ", [k \in 1..Len(kept) |-> CellStr(kept[k])])

\* the chunks the two loops of lines 280-284 yield for the sheets from the
\* k-th on, in order
RECURSIVE XlsxChunks(_, _)
XlsxChunks(sheets, k) ==
    IF k > Len(sheets) THEN << >>
    ELSE LET sheet == sheets[k]
             total_rows == Len(sheet.rows)
         IN  [i \in 1..total_rows |->
                 "Sheet '" \o sheet.name \o "', Row " \o ToString(i) \o "/"
                     \o ToString(total_rows) \o ": " \o JoinRow(sheet.rows[i]) \o "\n"]
             \o XlsxChunks(sheets, k + 1)

\* how many chunks the extractor yields on a file it can open
NumChunks(func, f) ==
    CASE func = "parse_image" -> 1
      [] func = "parse_xlsx"  -> Len(XlsxChunks(f.sheets, 1))
      [] func = "parse_text"  -> Len(TextChunks(f))
      [] OTHER                -> Len(f.units)

\* (variant of Chunk: the labels number the units as enumerate does, from 0)
ChunkNumberedFromZero(func, f, i) ==
    LET n == ToString(Len(f.units))
        k == ToString(i - 1)
    IN  CASE func = "parse_zip"  ->
               "Extracted " \o k \o "/" \o n \o ": " \o f.units[i] \o "\n"
          [] func = "parse_pdf"  ->
               "Page " \o k \o "/" \o n \o ": " \o PageText(f, i) \o "\n"
          [] func = "parse_text" -> TextChunks(f)[i]
          [] func = "parse_docx" -> f.units[i] \o "\n"
          [] func = "parse_xlsx" -> XlsxChunks(f.sheets, 1)[i]
          [] OTHER               -> Concat(f.units)

\* the i-th chunk (from 1) the extractor yields
Chunk(func, f, i) ==
    LET n == ToString(Len(f.units))
    IN  CASE func = "parse_zip"  ->
               "Extracted " \o ToString(i) \o "/" \o n \o ": " \o f.units[i] \o "\n"
          [] func = "parse_pdf"  ->
               "Page " \o ToString(i) \o "/" \o n \o ": " \o PageText(f, i) \o "\n"
          [] func = "parse_text" -> TextChunks(f)[i]
          [] func = "parse_docx" -> f.units[i] \o "\n"
          [] func = "parse_xlsx" -> XlsxChunks(f.sheets, 1)[i]
          [] OTHER               -> Concat(f.units)

\* (variant of GenResume: a document or text file without content yields one
\* empty chunk before it ends)
GenResumeYieldsWhenEmpty(func, f, pos, io) ==
    IF io = "io"
    THEN [kind |-> "raise", chunk |-> "", raw |-> "OSError",
          err |-> ExtractorHandlers(func, Exc("OSError", "read failed", pos + 1))]
    ELSE IF pos = 0 /\ OpenFails(func, f)
    THEN [kind |-> "raise", chunk |-> "", raw |-> StructuralError(func),
          err |-> ExtractorHandlers(func, Exc(StructuralError(func), "bad file", 0))]
    ELSE IF io = "ocr"
    THEN [kind |-> "raise", chunk |-> "", raw |-> "TesseractError",
          err |-> ExtractorHandlers(func, Exc("TesseractError", "tesseract failed",
                                              pos + 1))]
    ELSE IF pos < NumChunks(func, f)
    THEN [kind |-> "yield", chunk |-> Chunk(func, f, pos + 1), raw |-> "",
          err |-> Exc("", "", 0)]
    ELSE IF pos = 0 /\ func \in {"parse_text", "parse_docx"}
    THEN [kind |-> "yield", chunk |-> "", raw |-> "", err |-> Exc("", "", 0)]
    ELSE [kind |-> "stop", chunk |-> "", raw |-> "", err |-> Exc("", "", 0)]

\* The generator resumed (next(gen)) after it has yielded pos chunks: its
\* body runs to the next yield, to its end, or to an exception.
GenResume(func, f, pos, io) ==
    IF io = "io"
    THEN [kind |-> "raise", chunk |-> "", raw |-> "OSError",
          err |-> ExtractorHandlers(func, Exc("OSError", "read failed", pos + 1))]
    ELSE IF pos = 0 /\ OpenFails(func, f)
    THEN [kind |-> "raise", chunk |-> "", raw |-> StructuralError(func),
          err |-> ExtractorHandlers(func, Exc(StructuralError(func), "bad file", 0))]
    ELSE IF io = "ocr"
    THEN [kind |-> "raise", chunk |-> "", raw |-> "TesseractError",
          err |-> ExtractorHandlers(func, Exc("TesseractError", "tesseract failed",
                                              pos + 1))]
    ELSE IF pos < NumChunks(func, f)
    THEN [kind |-> "yield", chunk |-> Chunk(func, f, pos + 1), raw |-> "",
          err |-> Exc("", "", 0)]
    ELSE [kind |-> "stop", chunk |-> "", raw |-> "", err |-> Exc("", "", 0)]

\* (variant of Accumulate: the chunk put in front)
AccumulateInFront(res, chunk) == chunk \o res

\* `result += chunk` (line 133)
Accumulate(res, chunk) == res \o chunk

\* (variant of extract: every member written at once, as extractall does)
extractall(dir, f, i) == f.units

\* `zip_ref.extract(file, extract_dir)` (line 154), made for the i-th member
\* just before its chunk is yielded: the member is written to the directory
extract(dir, f, i) == Append(dir, f.units[i])

\* (variant of update: a step backwards is ignored)
updateForwardOnly(n, by) == IF by < 0 THEN n ELSE n + by

\* `pbar.update(...)` (lines 134 and 137): tqdm adds the step to its counter
\* n, whatever the sign of the step and whatever the declared total
update(n, by) == n + by

\* (variant of DeadlineExceeded: a non-strict comparison)
DeadlineReached(t, start) == t - start >= MAX_PROCESSING_TIME

\* `time.time() - start_time > MAX_PROCESSING_TIME` (line 135)
DeadlineExceeded(t, start) == t - start > MAX_PROCESSING_TIME

----------------------------------------------------------------------------
(* The state *)

Functions == Extractors \cup {"check_file_size", "identify_format"}

NoGen == [func |-> None, state |-> "none", pos |-> 0, raw |-> ""]

NoOutcome == [kind |-> "none", value |-> None, err |-> Exc("", "", 0)]

NoFormat == [extension_guess |-> "<unset>", content_guess |-> "<unset>"]

\* the locals of a call of parse_file on f that has not taken a step
NewCall(f) ==
    [file |-> f, pc |-> "Start", start_time |-> 0, file_format |-> NoFormat,
     parsing_func |-> None, gen |-> NoGen, result |-> "", pbar |-> 0,
     wrapper |-> NoFrame, outcome |-> NoOutcome,
     invoked |-> [fn \in Functions |-> 0], yielded |-> << >>, sleeps |-> << >>,
     oplog |-> << >>, checks |-> 0, contentRead |-> FALSE, extracted |-> << >>,
     ocr_calls |-> << >>, started_at |-> 0, trail |-> << "Start" >>]

\* no concurrent call
NoParked == [NewCall(CHOOSE f \in MissingFiles : f.path = "a.dat") EXCEPT !.pc = "none"]

\* what an I/O step may do: fail only while the environment has faults left
IOChoices == IF faults > 0 THEN {"none", "io"} ELSE {"none"}

\* what pytesseract.image_to_string may do at line 295, the one statement of
\* parse_image that runs the OCR engine
OcrChoices(func, pos) ==
    IF faults > 0 /\ func = "parse_image" /\ pos = 0 THEN {"ocr"} ELSE {}

Init ==
    /\ file \in Files
    /\ MAGIC_AVAILABLE \in BOOLEAN
    /\ faults \in 0..MaxFaults
    /\ pc = "Start"
    /\ now = 0
    /\ start_time = 0
    /\ file_format = NoFormat
    /\ parsing_func = None
    /\ gen = NoGen
    /\ result = ""
    /\ pbar = 0
    /\ wrapper = NoFrame
    /\ outcome = NoOutcome
    /\ invoked = [fn \in Functions |-> 0]
    /\ yielded = << >>
    /\ sleeps = << >>
    /\ oplog = << >>
    /\ checks = 0
    /\ contentRead = FALSE
    /\ extracted = << >>
    /\ ocr_calls = << >>
    /\ previous = << >>
    /\ started_at = 0
    /\ parked = NoParked
    /\ trail = << "Start" >>

----------------------------------------------------------------------------
(* parse_file (lines 103-144), one action per step *)

\* (variant of CheckExists: the existence check made inside the try block, so
\* that the handlers of lines 140-144 see its error)
CheckExistsInsideTry ==
    /\ pc = "Start"
    /\ IF file.exists
       THEN /\ pc' = "Exists"
            /\ UNCHANGED << outcome, trail >>
       ELSE /\ pc' = "Failed"
            /\ outcome' = Raised(ParseFileHandlers(
                               Exc("FileNotFoundError", "File not found", 0)))
            /\ trail' = Append(trail, "Failed")
    /\ UNCHANGED << file, MAGIC_AVAILABLE, faults, now, start_time, file_format,
                    parsing_func, gen, result, pbar, wrapper, invoked, yielded,
                    sleeps, oplog, checks, contentRead, extracted, ocr_calls,
                    previous, started_at, parked >>

\* lines 105-106
CheckExists ==
    /\ pc = "Start"
    /\ IF file.exists
       THEN /\ pc' = "Exists"
            /\ UNCHANGED << outcome, trail >>
       ELSE /\ pc' = "Failed"
            /\ outcome' = Raised(Exc("FileNotFoundError", "File not found", 0))
            /\ trail' = Append(trail, "Failed")
    /\ UNCHANGED << file, MAGIC_AVAILABLE, faults, now, start_time, file_format,
                    parsing_func, gen, result, pbar, wrapper, invoked, yielded,
                    sleeps, oplog, checks, contentRead, extracted, ocr_calls,
                    previous, started_at, parked >>

\* line 108, outside the try block
CheckFileSize ==
    /\ pc = "Exists"
    /\ invoked' = [invoked EXCEPT !["check_file_size"] = @ + 1]
    /\ LET o == check_file_size(file)
       IN  IF o.kind = "ok"
           THEN /\ pc' = "SizeChecked"
                /\ trail' = Append(trail, "SizeChecked")
                /\ UNCHANGED outcome
           ELSE /\ pc' = "Failed"
                /\ outcome' = o
                /\ trail' = Append(trail, "Failed")
    /\ UNCHANGED << file, MAGIC_AVAILABLE, faults, now, start_time, file_format,
                    parsing_func, gen, result, pbar, wrapper, yielded, sleeps,
                    oplog, checks, contentRead, extracted, ocr_calls, previous,
                    started_at, parked >>

\* lines 111-112: start_time is taken, then identify_format is called through
\* its retry wrapper; one step is one iteration of the wrapper's loop
IdentifyFormat ==
    /\ pc = "SizeChecked"
    /\ LET w == IF wrapper = NoFrame
                THEN Frame("identify_format", DECORATOR_MAX_ATTEMPTS, DECORATOR_DELAY)
                ELSE wrapper
       IN  /\ w.attempts < w.max_attempts
           /\ \E io \in (IF MAGIC_AVAILABLE THEN IOChoices ELSE {"none"}),
                 d \in Durations :
                LET o == identify_format(file, MAGIC_AVAILABLE, io)
                    r == RetryIteration(o, w)
                IN  /\ start_time' = IF wrapper = NoFrame THEN now ELSE start_time
                    /\ started_at' = IF wrapper = NoFrame THEN now ELSE started_at
                    /\ now' = now + d + Sum(r.slept)
                    /\ faults' = IF io = "io" THEN faults - 1 ELSE faults
                    /\ invoked' = [invoked EXCEPT !["identify_format"] = @ + 1]
                    /\ contentRead' = (contentRead \/ MAGIC_AVAILABLE)
                    /\ oplog' = Append(oplog, o)
                    /\ sleeps' = sleeps \o r.slept
                    /\ CASE r.status = "returned" ->
                              /\ file_format' = r.value
                              /\ pc' = "FormatIdentified"
                              /\ trail' = Append(trail, "FormatIdentified")
                              /\ wrapper' = NoFrame
                              /\ UNCHANGED outcome
                         [] r.status = "raised" ->
                              /\ outcome' = Raised(ParseFileHandlers(r.err))
                              /\ pc' = "Failed"
                              /\ trail' = Append(trail, "Failed")
                              /\ wrapper' = NoFrame
                              /\ UNCHANGED file_format
                         [] OTHER ->
                              /\ wrapper' = [w EXCEPT !.attempts = r.attempts]
                              /\ UNCHANGED << file_format, pc, trail, outcome >>
    /\ UNCHANGED << file, MAGIC_AVAILABLE, parsing_func, gen, result, pbar,
                    yielded, checks, extracted, ocr_calls, previous, parked >>

\* lines 114-132: the dispatch, then `parsing_func(file_path)` through the
\* extractor's retry wrapper, which returns the generator, then tqdm and
\* `result = ""`
SelectExtractor ==
    /\ pc = "FormatIdentified"
    /\ LET sel == Dispatch(file_format.content_guess, file.path)
       IN  IF sel.kind = "raise"
           THEN /\ outcome' = Raised(ParseFileHandlers(sel.err))
                /\ pc' = "Failed"
                /\ trail' = Append(trail, "Failed")
                /\ UNCHANGED << parsing_func, gen, oplog, sleeps >>
           ELSE LET o == CallExtractor(sel.value)
                    r == RetryIteration(
                            o, Frame(sel.value, DECORATOR_MAX_ATTEMPTS, DECORATOR_DELAY))
                IN  /\ parsing_func' = sel.value
                    /\ r.status = "returned"
                    /\ gen' = [func |-> sel.value, state |-> "created",
                               pos |-> 0, raw |-> ""]
                    /\ oplog' = Append(oplog, o)
                    /\ sleeps' = sleeps \o r.slept
                    /\ pc' = "Extracting"
                    /\ trail' = Append(trail, "Extracting")
                    /\ UNCHANGED outcome
    /\ result' = ""
    /\ pbar' = 0
    /\ UNCHANGED << file, MAGIC_AVAILABLE, faults, now, start_time, file_format,
                    wrapper, invoked, yielded, checks, contentRead, extracted,
                    ocr_calls, previous, started_at, parked >>

\* lines 132-138: one `next` of the for loop over the generator, with the loop
\* body when a chunk comes, the return when the generator is exhausted and the
\* handlers of lines 140-144 when it raises
Iterate ==
    /\ pc = "Extracting"
    /\ gen.state \in {"created", "suspended"}
    /\ \E io \in IOChoices \cup OcrChoices(gen.func, gen.pos), d \in Durations :
         LET g == GenResume(gen.func, file, gen.pos, io)
         IN  /\ faults' = IF io # "none" THEN faults - 1 ELSE faults
             /\ invoked' = IF gen.state = "created"
                           THEN [invoked EXCEPT ![gen.func] = @ + 1]
                           ELSE invoked
             /\ contentRead' = TRUE
             /\ CASE g.kind = "yield" ->
                       /\ result' = Accumulate(result, g.chunk)
                       /\ yielded' = Append(yielded, g.chunk)
                       /\ extracted' = IF gen.func = "parse_zip"
                                       THEN extract(extracted, file, gen.pos + 1)
                                       ELSE extracted
                       /\ ocr_calls' =
                            IF gen.func = "parse_pdf"
                                /\ NeedsOcr(ExtractedText(file.units[gen.pos + 1]))
                            THEN Append(ocr_calls,
                                        [page |-> gen.pos + 1,
                                         text |-> ocr_pdf_page(file.res[gen.pos + 1])])
                            ELSE ocr_calls
                       /\ pbar' = update(pbar, PBAR_STEP)
                       /\ now' = now + d
                       /\ checks' = checks + 1
                       /\ IF DeadlineExceeded(now', start_time)
                          THEN /\ outcome' = Raised(ParseFileHandlers(
                                      Exc("ProcessingTimeoutError",
                                          "Processing time exceeded", gen.pos + 1)))
                               /\ pc' = "Failed"
                               /\ trail' = Append(trail, "Failed")
                               /\ gen' = [gen EXCEPT !.state = "closed",
                                                     !.pos = @ + 1]
                          ELSE /\ gen' = [gen EXCEPT !.state = "suspended",
                                                     !.pos = @ + 1]
                               /\ UNCHANGED << outcome, pc, trail >>
                  [] g.kind = "stop" ->
                       /\ pbar' = update(pbar, PBAR_TOTAL - pbar)
                       /\ outcome' = Returned(result)
                       /\ pc' = "Done"
                       /\ trail' = Append(trail, "Done")
                       /\ gen' = [gen EXCEPT !.state = "finished"]
                       /\ UNCHANGED << result, yielded, extracted, ocr_calls, now,
                                       checks >>
                  [] OTHER ->
                       /\ outcome' = Raised(ParseFileHandlers(g.err))
                       /\ pc' = "Failed"
                       /\ trail' = Append(trail, "Failed")
                       /\ gen' = [gen EXCEPT !.state = "finished", !.raw = g.raw]
                       /\ UNCHANGED << result, yielded, extracted, ocr_calls, now,
                                       checks, pbar >>
    /\ UNCHANGED << file, MAGIC_AVAILABLE, start_time, file_format, parsing_func,
                    wrapper, sleeps, oplog, previous, started_at, parked >>

Next == CheckExists \/ CheckFileSize \/ IdentifyFormat \/ SelectExtractor \/ Iterate

Spec == Init /\ [][Next]_vars

\* parse_file on PDF files whose pages carry text, images, forms or nothing
PdfInit ==
    /\ file \in PdfFiles
    /\ MAGIC_AVAILABLE \in BOOLEAN
    /\ faults \in 0..MaxFaults
    /\ pc = "Start"
    /\ now = 0
    /\ start_time = 0
    /\ file_format = NoFormat
    /\ parsing_func = None
    /\ gen = NoGen
    /\ result = ""
    /\ pbar = 0
    /\ wrapper = NoFrame
    /\ outcome = NoOutcome
    /\ invoked = [fn \in Functions |-> 0]
    /\ yielded = << >>
    /\ sleeps = << >>
    /\ oplog = << >>
    /\ checks = 0
    /\ contentRead = FALSE
    /\ extracted = << >>
    /\ ocr_calls = << >>
    /\ previous = << >>
    /\ started_at = 0
    /\ parked = NoParked
    /\ trail = << "Start" >>

PdfSpec == PdfInit /\ [][Next]_vars

----------------------------------------------------------------------------
(* Two successive calls of parse_file(file_path) on one FileParser and one  *)
(* file                                                                    *)

\* (variant of Directory: every extraction adds a new file)
DirectoryOfCopies(log) == log

\* The files below <file_path>_extracted after the extractions of log:
\* zip_ref.extract(file, extract_dir) writes to the member's path there, over
\* a file already at that path (line 154).
Directory(log) == {log[k] : k \in 1..Len(log)}

\* the files the extractors for archives, text and documents are given
RepeatFiles ==
    { f \in ExistingFiles :
        /\ f.size < MAX_FILE_SIZE
        /\ f.path \in {"a.zip", "a.txt", "a.docx"}
        /\ f.magic \in {"application/zip", "text/plain", "application/msword"} }

RepeatInit ==
    /\ file \in RepeatFiles
    /\ MAGIC_AVAILABLE \in BOOLEAN
    /\ faults \in 0..MaxFaults
    /\ pc = "Start"
    /\ now = 0
    /\ start_time = 0
    /\ file_format = NoFormat
    /\ parsing_func = None
    /\ gen = NoGen
    /\ result = ""
    /\ pbar = 0
    /\ wrapper = NoFrame
    /\ outcome = NoOutcome
    /\ invoked = [fn \in Functions |-> 0]
    /\ yielded = << >>
    /\ sleeps = << >>
    /\ oplog = << >>
    /\ checks = 0
    /\ contentRead = FALSE
    /\ extracted = << >>
    /\ ocr_calls = << >>
    /\ previous = << >>
    /\ started_at = 0
    /\ parked = NoParked
    /\ trail = << "Start" >>

\* The first call has ended and parse_file is called again with the same path:
\* every local of parse_file (lines 111-131) is new, nothing of `self` has
\* been assigned (lines 71-75 are its only assignments), the clock has moved
\* on and the files extracted so far are where they were.
CallAgain ==
    /\ pc \in {"Done", "Failed"}
    /\ previous = << >>
    /\ previous' = Append(previous, [outcome |-> outcome, func |-> parsing_func,
                                     directory |-> Directory(extracted)])
    /\ pc' = "Start"
    /\ file_format' = NoFormat
    /\ parsing_func' = None
    /\ gen' = NoGen
    /\ result' = ""
    /\ pbar' = 0
    /\ wrapper' = NoFrame
    /\ outcome' = NoOutcome
    /\ invoked' = [fn \in Functions |-> 0]
    /\ yielded' = << >>
    /\ sleeps' = << >>
    /\ oplog' = << >>
    /\ checks' = 0
    /\ contentRead' = FALSE
    /\ ocr_calls' = << >>
    /\ trail' = << "Start" >>
    /\ UNCHANGED << file, MAGIC_AVAILABLE, faults, now, start_time, extracted,
                    started_at, parked >>

RepeatNext == Next \/ CallAgain

RepeatSpec == RepeatInit /\ [][RepeatNext]_vars

----------------------------------------------------------------------------
(* Two concurrent calls of parse_file on one FileParser, on distinct paths. *)
(* One call runs at a time and the two alternate between steps in any      *)
(* order.  What is swapped when the other call takes over is what a call   *)
(* owns: the locals of parse_file and of the frames below it, its file and *)
(* the directory it extracts to.  The clock, MAGIC_AVAILABLE and the       *)
(* environment's faults are common to both.                                *)

\* the locals of the call that is running
Running ==
    [file |-> file, pc |-> pc, start_time |-> start_time,
     file_format |-> file_format, parsing_func |-> parsing_func, gen |-> gen,
     result |-> result, pbar |-> pbar, wrapper |-> wrapper, outcome |-> outcome,
     invoked |-> invoked, yielded |-> yielded, sleeps |-> sleeps, oplog |-> oplog,
     checks |-> checks, contentRead |-> contentRead, extracted |-> extracted,
     ocr_calls |-> ocr_calls, started_at |-> started_at, trail |-> trail]

\* (variant of Switch: start_time kept in an attribute of the FileParser, which
\* the two calls share, not in a local)
SwitchSharingStartTime ==
    /\ parked # NoParked
    /\ parked' = Running
    /\ file' = parked.file
    /\ pc' = parked.pc
    /\ file_format' = parked.file_format
    /\ parsing_func' = parked.parsing_func
    /\ gen' = parked.gen
    /\ result' = parked.result
    /\ pbar' = parked.pbar
    /\ wrapper' = parked.wrapper
    /\ outcome' = parked.outcome
    /\ invoked' = parked.invoked
    /\ yielded' = parked.yielded
    /\ sleeps' = parked.sleeps
    /\ oplog' = parked.oplog
    /\ checks' = parked.checks
    /\ contentRead' = parked.contentRead
    /\ extracted' = parked.extracted
    /\ ocr_calls' = parked.ocr_calls
    /\ started_at' = parked.started_at
    /\ trail' = parked.trail
    /\ UNCHANGED << MAGIC_AVAILABLE, faults, now, previous, start_time >>

\* the running call is suspended between two of its steps and the other runs
Switch ==
    /\ parked # NoParked
    /\ parked' = Running
    /\ file' = parked.file
    /\ pc' = parked.pc
    /\ start_time' = parked.start_time
    /\ file_format' = parked.file_format
    /\ parsing_func' = parked.parsing_func
    /\ gen' = parked.gen
    /\ result' = parked.result
    /\ pbar' = parked.pbar
    /\ wrapper' = parked.wrapper
    /\ outcome' = parked.outcome
    /\ invoked' = parked.invoked
    /\ yielded' = parked.yielded
    /\ sleeps' = parked.sleeps
    /\ oplog' = parked.oplog
    /\ checks' = parked.checks
    /\ contentRead' = parked.contentRead
    /\ extracted' = parked.extracted
    /\ ocr_calls' = parked.ocr_calls
    /\ started_at' = parked.started_at
    /\ trail' = parked.trail
    /\ UNCHANGED << MAGIC_AVAILABLE, faults, now, previous >>

\* a text file and an archive, of lines and members "a"
ConcFiles(p, m) ==
    { f \in ExistingFiles :
        /\ f.path = p /\ f.magic = m /\ f.size < MAX_FILE_SIZE /\ ~f.corrupt
        /\ \A i \in 1..Len(f.units) : f.units[i] = "a" }

ConcInit ==
    /\ file \in ConcFiles("a.txt", "text/plain")
    /\ parked \in {NewCall(f) : f \in ConcFiles("a.zip", "application/zip")}
    /\ MAGIC_AVAILABLE \in BOOLEAN
    /\ faults \in 0..MaxFaults
    /\ pc = "Start"
    /\ now = 0
    /\ start_time = 0
    /\ file_format = NoFormat
    /\ parsing_func = None
    /\ gen = NoGen
    /\ result = ""
    /\ pbar = 0
    /\ wrapper = NoFrame
    /\ outcome = NoOutcome
    /\ invoked = [fn \in Functions |-> 0]
    /\ yielded = << >>
    /\ sleeps = << >>
    /\ oplog = << >>
    /\ checks = 0
    /\ contentRead = FALSE
    /\ extracted = << >>
    /\ ocr_calls = << >>
    /\ previous = << >>
    /\ started_at = 0
    /\ trail = << "Start" >>

ConcNext == Next \/ Switch

ConcSpec == ConcInit /\ [][ConcNext]_vars

----------------------------------------------------------------------------
(* parse_file on text files with invalid bytes *)

TextInit ==
    /\ file \in TextFiles
    /\ MAGIC_AVAILABLE \in BOOLEAN
    /\ faults \in 0..MaxFaults
    /\ pc = "Start"
    /\ now = 0
    /\ start_time = 0
    /\ file_format = NoFormat
    /\ parsing_func = None
    /\ gen = NoGen
    /\ result = ""
    /\ pbar = 0
    /\ wrapper = NoFrame
    /\ outcome = NoOutcome
    /\ invoked = [fn \in Functions |-> 0]
    /\ yielded = << >>
    /\ sleeps = << >>
    /\ oplog = << >>
    /\ checks = 0
    /\ contentRead = FALSE
    /\ extracted = << >>
    /\ ocr_calls = << >>
    /\ previous = << >>
    /\ started_at = 0
    /\ parked = NoParked
    /\ trail = << "Start" >>

TextSpec == TextInit /\ [][Next]_vars

----------------------------------------------------------------------------
(* parse_file on documents of many paragraphs *)

\* documents of up to MaxParagraphs paragraphs "a", named and sniffed as such
LongFiles ==
    { [path |-> "a.docx", exists |-> TRUE, size |-> MAX_FILE_SIZE,
       magic |-> "application/msword", units |-> [i \in 1..n |-> "a"],
       corrupt |-> c, res |-> [i \in 1..n |-> NoResources], sheets |-> << >>] :
         n \in 0..MaxParagraphs, c \in BOOLEAN }

LongInit ==
    /\ file \in LongFiles
    /\ MAGIC_AVAILABLE \in BOOLEAN
    /\ faults \in 0..MaxFaults
    /\ pc = "Start"
    /\ now = 0
    /\ start_time = 0
    /\ file_format = NoFormat
    /\ parsing_func = None
    /\ gen = NoGen
    /\ result = ""
    /\ pbar = 0
    /\ wrapper = NoFrame
    /\ outcome = NoOutcome
    /\ invoked = [fn \in Functions |-> 0]
    /\ yielded = << >>
    /\ sleeps = << >>
    /\ oplog = << >>
    /\ checks = 0
    /\ contentRead = FALSE
    /\ extracted = << >>
    /\ ocr_calls = << >>
    /\ previous = << >>
    /\ started_at = 0
    /\ parked = NoParked
    /\ trail = << "Start" >>

LongSpec == LongInit /\ [][Next]_vars

----------------------------------------------------------------------------
(* parse_file on XLSX workbooks of one or two sheets *)

XlsxInit ==
    /\ file \in XlsxFiles
    /\ MAGIC_AVAILABLE \in BOOLEAN
    /\ faults \in 0..MaxFaults
    /\ pc = "Start"
    /\ now = 0
    /\ start_time = 0
    /\ file_format = NoFormat
    /\ parsing_func = None
    /\ gen = NoGen
    /\ result = ""
    /\ pbar = 0
    /\ wrapper = NoFrame
    /\ outcome = NoOutcome
    /\ invoked = [fn \in Functions |-> 0]
    /\ yielded = << >>
    /\ sleeps = << >>
    /\ oplog = << >>
    /\ checks = 0
    /\ contentRead = FALSE
    /\ extracted = << >>
    /\ ocr_calls = << >>
    /\ previous = << >>
    /\ started_at = 0
    /\ parked = NoParked
    /\ trail = << "Start" >>

XlsxSpec == XlsxInit /\ [][Next]_vars

----------------------------------------------------------------------------
(* retry applied to an arbitrary function `op`: one call of the wrapper     *)
(* (lines 55-65), one action per iteration of its loop.  max_attempts is at *)
(* least 1, as at every use in the module, so the loop is left only by      *)
(* `return` or `raise`.                                                     *)

\* exception classes an attempt of op may raise
OpErrors == {"OSError", "ConnectionError", "PermissionError", "ValueError", "ParseError"}

\* what the k-th invocation of op may give
OpOutcomes(k) ==
    {Returned("v" \o ToString(k))}
        \cup {Raised(Exc(c, "op failed", k)) : c \in OpErrors}

RetryInit ==
    /\ \E n \in 1..MaxAttempts, delay \in {DEFAULT_DELAY, DECORATOR_DELAY} :
          wrapper = Frame("op", n, delay)
    /\ file = CHOOSE f \in MissingFiles : f.path = "a.dat"
    /\ MAGIC_AVAILABLE = FALSE
    /\ faults = 0
    /\ pc = "Retry"
    /\ now = 0
    /\ start_time = 0
    /\ file_format = NoFormat
    /\ parsing_func = None
    /\ gen = NoGen
    /\ result = ""
    /\ pbar = 0
    /\ outcome = NoOutcome
    /\ invoked = [fn \in Functions |-> 0]
    /\ yielded = << >>
    /\ sleeps = << >>
    /\ oplog = << >>
    /\ checks = 0
    /\ contentRead = FALSE
    /\ extracted = << >>
    /\ ocr_calls = << >>
    /\ previous = << >>
    /\ started_at = 0
    /\ parked = NoParked
    /\ trail = << >>

RetryAttempt ==
    /\ pc = "Retry"
    /\ wrapper.attempts < wrapper.max_attempts
    /\ \E o \in OpOutcomes(Len(oplog) + 1) :
         LET r == RetryIteration(o, wrapper)
         IN  /\ oplog' = Append(oplog, o)
             /\ sleeps' = sleeps \o r.slept
             /\ now' = now + Sum(r.slept)
             /\ wrapper' = [wrapper EXCEPT !.attempts = r.attempts]
             /\ CASE r.status = "returned" ->
                       /\ outcome' = Returned(r.value)
                       /\ pc' = "Returned"
                  [] r.status = "raised" ->
                       /\ outcome' = Raised(r.err)
                       /\ pc' = "Raised"
                  [] OTHER -> UNCHANGED << outcome, pc >>
    /\ UNCHANGED << file, MAGIC_AVAILABLE, faults, start_time, file_format,
                    parsing_func, gen, result, pbar, invoked, yielded, checks,
                    contentRead, extracted, ocr_calls, previous, started_at,
                    parked, trail >>

RetryNext == RetryAttempt

RetrySpec == RetryInit /\ [][RetryNext]_vars

----------------------------------------------------------------------------
(* Properties of parse_file, checked under Spec *)

Terminal == pc \in {"Done", "Failed"}

PastSizeCheck == pc \notin {"Start", "Exists"}

\* C1: an existing file larger than MAX_FILE_SIZE makes parse_file fail with
\* FileTooLargeError without identify_format or any extractor being entered
\* and without any byte of content being read; a file of at most
\* MAX_FILE_SIZE bytes passes the size check.
C1_SizeGuard ==
    /\ (file.exists /\ file.size > MAX_FILE_SIZE /\ PastSizeCheck) =>
          /\ pc = "Failed"
          /\ outcome.kind = "raise"
          /\ outcome.err.cls = "FileTooLargeError"
          /\ \A fn \in Extractors \cup {"identify_format"} : invoked[fn] = 0
          /\ gen = NoGen
          /\ ~contentRead
    /\ (file.exists /\ file.size <= MAX_FILE_SIZE /\ PastSizeCheck) =>
          /\ Len(trail) >= 2
          /\ trail[2] = "SizeChecked"
          /\ outcome.err.cls # "FileTooLargeError"

C1_Witness ==
    /\ pc = "Failed"
    /\ file.size = MAX_FILE_SIZE + 1
    /\ outcome.err.cls = "FileTooLargeError"
    /\ invoked["check_file_size"] = 1

\* C2: on every successful parse the returned string is the concatenation, in
\* production order, of exactly the chunks the selected extractor yielded,
\* which are all the chunks of the file, each once.
C2_ResultIsConcatenation ==
    pc = "Done" =>
       /\ outcome.kind = "ok"
       /\ outcome.value = Concat(yielded)
       /\ yielded = [i \in 1..NumChunks(parsing_func, file) |->
                        Chunk(parsing_func, file, i)]

C2_Witness ==
    /\ pc = "Done"
    /\ Len(yielded) = 2
    /\ yielded[1] # yielded[2]
    /\ outcome.value = yielded[1] \o yielded[2]

\* C3: the deadline is evaluated once after every chunk; the loop goes on (or
\* returns) only if the elapsed time at the last evaluation was at most
\* MAX_PROCESSING_TIME, and otherwise parse_file has failed with
\* ProcessingTimeoutError, reaching the caller as that class, with no text
\* returned and no further chunk taken from the generator.
C3_Deadline ==
    /\ ("Extracting" \in {trail[i] : i \in 1..Len(trail)}) => checks = Len(yielded)
    /\ (pc \in {"Extracting", "Done"} /\ checks > 0) =>
          now - start_time <= MAX_PROCESSING_TIME
    /\ (checks > 0 /\ now - start_time > MAX_PROCESSING_TIME) =>
          /\ pc = "Failed"
          /\ outcome.kind = "raise"
          /\ outcome.err.cls = "ProcessingTimeoutError"
          /\ gen.state = "closed"
          /\ gen.pos = Len(yielded)
    /\ (outcome.err.cls = "ProcessingTimeoutError") =>
          /\ now - start_time > MAX_PROCESSING_TIME
          /\ outcome.kind = "raise"

C3_Witness ==
    /\ pc = "Failed"
    /\ outcome.err.cls = "ProcessingTimeoutError"
    /\ Len(yielded) = 1
    /\ NumChunks(parsing_func, file) = 2
    /\ result # ""

StageOrder == << "Start", "SizeChecked", "FormatIdentified", "Extracting" >>

\* C4: the stages are entered in the order Start, SizeChecked,
\* FormatIdentified, Extracting, each only after its predecessor succeeded;
\* the call ends in exactly one of Done and Failed, Done only from
\* Extracting, and a call that has not ended can always take a step.
C4_StageOrder ==
    LET n == Len(trail)
    IN  /\ n \in 1..5
        /\ \A i \in 1..(n - 1) : trail[i] = StageOrder[i]
        /\ \/ n <= 4 /\ trail[n] = StageOrder[n]
           \/ n >= 2 /\ trail[n] = "Failed"
           \/ n = 5 /\ trail[n] = "Done"
        /\ Terminal <=> trail[n] \in {"Done", "Failed"}
        /\ pc = "Done" <=> outcome.kind = "ok"
        /\ pc = "Failed" <=> outcome.kind = "raise"
        /\ pc = "Done" => trail[n] = "Done"
        /\ (n >= 2 /\ trail[2] = "SizeChecked") =>
              file.exists /\ file.size <= MAX_FILE_SIZE /\ invoked["check_file_size"] = 1
        /\ invoked["identify_format"] > 0 => (n >= 2 /\ trail[2] = "SizeChecked")
        /\ (n >= 3 /\ trail[3] = "FormatIdentified") =>
              file_format # NoFormat /\ invoked["identify_format"] > 0
        /\ (gen # NoGen \/ \E fn \in Extractors : invoked[fn] > 0) =>
              (n >= 4 /\ trail[4] = "Extracting" /\ parsing_func \in Extractors)
        /\ ~Terminal => ENABLED Next

C4_Witness ==
    /\ pc = "Done"
    /\ trail = << "Start", "SizeChecked", "FormatIdentified", "Extracting", "Done" >>

\* the six dispatch rules as the specification lists them
RuleMatches(i, cg, p) ==
    CASE i = 1 -> Contains(cg, "zip")
      [] i = 2 -> Contains(cg, "pdf")
      [] i = 3 -> Contains(cg, "text")
      [] i = 4 -> Contains(cg, "word") \/ EndsWith(p, ".docx")
      [] i = 5 -> Contains(cg, "excel") \/ EndsWith(p, ".xlsx")
      [] OTHER -> Contains(cg, "image")

RuleExtractor ==
    << "parse_zip", "parse_pdf", "parse_text", "parse_docx", "parse_xlsx", "parse_image" >>

Dispatched == Len(trail) >= 4 /\ trail[3] = "FormatIdentified"

\* C5: once the dispatch has run on a content_guess that is a string, the
\* extractor selected is the one of the first rule that matches, in the order
\* zip, pdf, text, word/.docx, excel/.xlsx, image; one extractor is selected
\* exactly when some rule matches, and no extractor other than the selected
\* one is ever entered.
C5_FirstMatchingRule ==
    (Dispatched /\ file_format.content_guess # None) =>
       LET cg == file_format.content_guess
           matching == {i \in 1..6 : RuleMatches(i, cg, file.path)}
       IN  /\ (matching = {}) <=> (parsing_func = None)
           /\ \A i \in matching :
                 (\A j \in matching : i <= j) => parsing_func = RuleExtractor[i]
           /\ \A fn \in Extractors : invoked[fn] > 0 => fn = parsing_func
           /\ gen # NoGen => gen.func = parsing_func

C5_Witness ==
    /\ pc = "Extracting"
    /\ parsing_func = "parse_text"
    /\ EndsWith(file.path, ".docx")
    /\ invoked["parse_text"] = 1

\* C6: every exception parse_file raises is of the FileParserError family.
C6_ClosedTaxonomy ==
    outcome.kind = "raise" => IsFileParserError(outcome.err)

\* C9: a structural failure (the file is not of the format its extractor
\* expects, or no extractor accepts it) is not retried: the extractor's body
\* was entered once, nothing was slept, and the caller gets the ParseError the
\* extractor raised (or UnsupportedFileTypeError with no extractor entered);
\* no extractor body is ever entered more than max_attempts times.
C9_StructuralNotRetried ==
    /\ (pc = "Failed" /\ gen # NoGen /\ gen.raw = StructuralError(gen.func)) =>
          /\ invoked[gen.func] = 1
          /\ sleeps = << >>
          /\ outcome = Raised(Exc("ParseError", "not a valid file: " \o gen.raw, 0))
    /\ (outcome.err.cls = "UnsupportedFileTypeError") =>
          /\ pc = "Failed"
          /\ \A fn \in Extractors : invoked[fn] = 0
          /\ sleeps = << >>
    /\ \A fn \in Extractors : invoked[fn] <= DECORATOR_MAX_ATTEMPTS

C9_Witness ==
    /\ pc = "Failed"
    /\ gen.func = "parse_zip"
    /\ gen.raw = "BadZipFile"
    /\ invoked["parse_zip"] = 1
    /\ outcome.err.cls = "ParseError"

\* C10: a parse does not fail on a transient error met inside an extractor
\* that has already produced a chunk while attempts remain: the extractor is
\* entered again from its first chunk, up to max_attempts times in all.
C10_WholeExtractionRetried ==
    (pc = "Failed" /\ gen # NoGen /\ gen.raw = "OSError"
        /\ yielded # << >> /\ Len(yielded) < NumChunks(gen.func, file)) =>
        invoked[gen.func] = DECORATOR_MAX_ATTEMPTS

----------------------------------------------------------------------------
(* Properties of retry, checked under RetrySpec *)

\* the classes among OpErrors that are IOError or ConnectionError
TransientClasses == {"OSError", "ConnectionError", "PermissionError"}

FailedTransiently(o) == o.kind = "raise" /\ o.err.cls \in TransientClasses

\* C7: the wrapper invokes the operation at most max_attempts times; every
\* invocation but the last failed transiently; a successful attempt is the
\* last and its value is returned; a non-transient failure is the last, is
\* raised as it is, and no sleep follows it.
C7_RetryBound ==
    LET n == Len(oplog)
    IN  /\ n <= wrapper.max_attempts
        /\ \A i \in 1..(n - 1) : FailedTransiently(oplog[i])
        /\ Len(sleeps) <= n
        /\ \A i \in 1..n :
              /\ oplog[i].kind = "ok" =>
                    /\ i = n
                    /\ pc = "Returned"
                    /\ outcome = Returned(oplog[i].value)
                    /\ Len(sleeps) = n - 1
              /\ (oplog[i].kind = "raise" /\ ~FailedTransiently(oplog[i])) =>
                    /\ i = n
                    /\ pc = "Raised"
                    /\ outcome = Raised(oplog[i].err)
                    /\ Len(sleeps) = n - 1

C7_Witness ==
    /\ pc = "Returned"
    /\ Len(oplog) = 3
    /\ outcome.value = "v3"

\* C8: when max_attempts invocations have all failed transiently, the wrapper
\* raises the error of the last one, the same exception, and has slept only
\* between attempts, not after the last.
C8_ExhaustedRaisesLast ==
    (Len(oplog) = wrapper.max_attempts
        /\ \A i \in 1..Len(oplog) : FailedTransiently(oplog[i])) =>
       /\ pc = "Raised"
       /\ outcome = Raised(oplog[Len(oplog)].err)
       /\ sleeps = [i \in 1..(wrapper.max_attempts - 1) |-> wrapper.delay]
       /\ now = (wrapper.max_attempts - 1) * wrapper.delay

C8_Witness ==
    /\ pc = "Raised"
    /\ Len(oplog) = 3
    /\ oplog[1].err.cls = "ConnectionError"
    /\ oplog[3].err.cls = "OSError"
    /\ outcome.err = oplog[3].err
    /\ Len(sleeps) = 2

----------------------------------------------------------------------------
(* Further properties of parse_file, checked under Spec *)

\* the call failed on a transient error met while sniffing or extracting
FailedOnTransient ==
    /\ pc = "Failed"
    /\ \/ gen # NoGen /\ gen.raw = "OSError"
       \/ gen = NoGen /\ invoked["identify_format"] > 0 /\ file_format = NoFormat

\* C11: a parse fails on a transient error only after max_attempts attempts
\* spaced by the 2-second delay, and the caller then gets that transient
\* error itself, of its own class.
C11_TransientReachesCallerUnchanged ==
    FailedOnTransient =>
       /\ IsSubclass(outcome.err.cls, "OSError")
       /\ sleeps = [i \in 1..(DECORATOR_MAX_ATTEMPTS - 1) |-> DECORATOR_DELAY]

\* C12: identification does not fail the parse on a transient error while
\* attempts remain: identify_format is attempted again and the parse goes on
\* with the guess of the attempt that succeeds.
C12_IdentificationRetried ==
    (pc = "Failed" /\ gen = NoGen /\ invoked["identify_format"] > 0
        /\ file_format = NoFormat) =>
       invoked["identify_format"] = DECORATOR_MAX_ATTEMPTS

\* C16: a path ending in .docx whose content_guess holds no "word" is routed
\* to parse_docx, and a path ending in .xlsx whose content_guess holds no
\* "excel" to parse_xlsx, whatever the content_guess.
C16_ExtensionFallback ==
    (Dispatched /\ file_format.content_guess # None) =>
       /\ (EndsWith(file.path, ".docx") /\ ~Contains(file_format.content_guess, "word"))
             => parsing_func = "parse_docx"
       /\ (EndsWith(file.path, ".xlsx") /\ ~Contains(file_format.content_guess, "excel"))
             => parsing_func = "parse_xlsx"

\* whether some dispatch rule accepts the guess (no label at all accepts none
\* of the content rules)
SomeRuleMatches(cg, p) ==
    IF cg = None
    THEN EndsWith(p, ".docx") \/ EndsWith(p, ".xlsx")
    ELSE \E i \in 1..6 : RuleMatches(i, cg, p)

\* C17: when the dispatch has run on a guess no rule accepts, a missing
\* label included, parse_file has failed with UnsupportedFileTypeError and
\* no extractor was entered.
C17_NoRuleIsUnsupported ==
    (Dispatched /\ ~SomeRuleMatches(file_format.content_guess, file.path)) =>
       /\ pc = "Failed"
       /\ outcome.err.cls = "UnsupportedFileTypeError"
       /\ \A fn \in Extractors : invoked[fn] = 0

\* C18 as stated: without python-magic content_guess equals extension_guess,
\* and a JPEG file renamed to .dat is dispatched to parse_image.
C18_RenamedJpegStillImage ==
    ~MAGIC_AVAILABLE =>
       /\ (file_format # NoFormat) =>
             file_format.content_guess = file_format.extension_guess
       /\ (Dispatched /\ file.magic = "image/jpeg" /\ EndsWith(file.path, ".dat"))
             => parsing_func = "parse_image"

\* C18 as amended: without python-magic content_guess equals extension_guess,
\* the guess of the suffix alone; a file with the suffix .dat then has no
\* label, no extractor is selected or entered for it and parse_file fails,
\* whatever its content; a file with the suffix .jpg goes to parse_image.
C18_DegradedSniffing ==
    ~MAGIC_AVAILABLE =>
       /\ (file_format # NoFormat) =>
             /\ file_format.content_guess = file_format.extension_guess
             /\ file_format.extension_guess = guess_type(file.path)
       /\ (Dispatched /\ EndsWith(file.path, ".dat")) =>
             /\ file_format.content_guess = None
             /\ pc = "Failed"
             /\ parsing_func = None
             /\ \A fn \in Extractors : invoked[fn] = 0
       /\ (Dispatched /\ EndsWith(file.path, ".jpg")) => parsing_func = "parse_image"

C18_Witness ==
    /\ ~MAGIC_AVAILABLE
    /\ file.path = "a.dat"
    /\ file.magic = "image/jpeg"
    /\ Dispatched
    /\ pc = "Failed"

\* C19: when the extractor is started no time has been counted against the
\* deadline yet: the clock starts with the extraction.
C19_ClockStartsAtExtraction ==
    (pc = "Extracting" /\ gen.state = "created") => now - start_time = 0

\* C20: the body of identify_format is entered at most once in a call, once
\* when a format was identified; the format guess and the extractor chosen
\* from it never change once set, and the generator consumed is the one of
\* the chosen extractor.
C20_FormatGuessOnce ==
    /\ [](/\ invoked["identify_format"] <= 1
          /\ (file_format # NoFormat) => invoked["identify_format"] = 1
          /\ (gen # NoGen) => (gen.func = parsing_func /\ parsing_func \in Extractors))
    /\ [][/\ (file_format # NoFormat) => file_format' = file_format
          /\ (parsing_func # None) => parsing_func' = parsing_func]_vars

C20_Witness ==
    /\ pc = "Failed"
    /\ gen # NoGen
    /\ gen.raw = "OSError"
    /\ Len(yielded) = 1
    /\ invoked["identify_format"] = 1

----------------------------------------------------------------------------
(* A further property of retry, checked under RetrySpec *)

\* C13: every sleep lasts the configured delay; while the wrapper is still
\* running every failed attempt has been followed by exactly one sleep, and
\* once it has returned or raised there is one sleep fewer than attempts:
\* the sleeps lie between consecutive attempts and only there, and the time
\* slept is the number of sleeps times the delay.
C13_FixedDelayBetweenAttempts ==
    /\ \A i \in 1..Len(sleeps) : sleeps[i] = wrapper.delay
    /\ (pc = "Retry") => Len(sleeps) = Len(oplog)
    /\ (pc # "Retry") => Len(sleeps) = Len(oplog) - 1
    /\ now = Len(sleeps) * wrapper.delay

C13_Witness ==
    /\ pc = "Returned"
    /\ Len(oplog) = 3
    /\ sleeps = << DECORATOR_DELAY, DECORATOR_DELAY >>
    /\ now = 2 * DECORATOR_DELAY

----------------------------------------------------------------------------
(* Properties of parse_pdf and of OCR, checked under PdfSpec and Spec *)

\* the page's directly extracted text is empty or made of whitespace only
IsBlank(t) == t = None \/ \A j \in 1..Len(t) : SubSeq(t, j, j) \in {" ", "\t", "\n"}

\* the calls of ocr_pdf_page made for page i
OcrCallsFor(i) == {k \in 1..Len(ocr_calls) : ocr_calls[k].page = i}

\* C14: for every PDF page emitted, ocr_pdf_page was invoked (once) if and
\* only if the page's extracted text is empty or whitespace-only; then the
\* page's chunk carries the OCR result, possibly empty, in place of the
\* extracted text; a page with non-whitespace text is emitted with its
\* extracted text and without OCR.  No OCR is made for a page not yet emitted.
C14_OcrIffBlankPage ==
    (gen # NoGen /\ gen.func = "parse_pdf") =>
        /\ \A i \in 1..Len(yielded) :
              LET head == "Page " \o ToString(i) \o "/"
                              \o ToString(Len(file.units)) \o ": "
              IN  IF IsBlank(file.units[i])
                  THEN /\ Cardinality(OcrCallsFor(i)) = 1
                       /\ \A k \in OcrCallsFor(i) :
                             yielded[i] = head \o ocr_calls[k].text \o "\n"
                  ELSE /\ OcrCallsFor(i) = {}
                       /\ yielded[i] = head \o file.units[i] \o "\n"
        /\ \A k \in 1..Len(ocr_calls) : ocr_calls[k].page \in 1..Len(yielded)

\* a two-page PDF parsed to its end: the first page was blank (whitespace)
\* and carries what OCR read, the second carries its own text
C14_Witness ==
    /\ pc = "Done"
    /\ file.units = << " \n", "a" >>
    /\ ocr_calls = << [page |-> 1, text |-> "y"] >>
    /\ outcome.value = "Page 1/2: y\nPage 2/2: a\n"

\* C15: an OCR failure never surfaces as an error of parse_file: when the OCR
\* engine fails, on a PDF page or on a standalone image, the parse does not
\* fail because of it.
C15_OcrFailureAbsorbed ==
    ~(pc = "Failed" /\ gen # NoGen /\ gen.raw = "TesseractError")

----------------------------------------------------------------------------
(* Properties of the single extractors and of the call as a whole *)

\* C21: for a path that does not exist parse_file fails with
\* FileNotFoundError, raised as it is (not converted into ParseError), before
\* check_file_size, identify_format or any extractor has run and before any
\* byte of content is read; no failure on an existing path is of that class
\* or related to it by inheritance.
C21_MissingFileDistinct ==
    /\ (~file.exists /\ pc # "Start") =>
           /\ pc = "Failed"
           /\ outcome = Raised(Exc("FileNotFoundError", "File not found", 0))
           /\ \A fn \in Functions : invoked[fn] = 0
           /\ ~contentRead
           /\ trail = << "Start", "Failed" >>
    /\ (file.exists /\ pc = "Failed") =>
           /\ ~IsSubclass(outcome.err.cls, "FileNotFoundError")
           /\ ~IsSubclass("FileNotFoundError", outcome.err.cls)

\* the call on a missing path has failed
C21_Witness ==
    ~file.exists /\ pc = "Failed" /\ outcome.err.cls = "FileNotFoundError"

\* C22: a successful parse of a ZIP archive with n members has yielded exactly
\* n chunks, the i-th being the line "Extracted i/n: <name of the i-th
\* member>" in the order of the archive's listing, and every member has been
\* written below <path>_extracted.
C22_ZipChunksAndDirectory ==
    (pc = "Done" /\ gen.func = "parse_zip") =>
        LET n == Len(file.units)
        IN  /\ Len(yielded) = n
            /\ \A i \in 1..n :
                  yielded[i] = "Extracted " \o ToString(i) \o "/" \o ToString(n)
                                   \o ": " \o file.units[i] \o "\n"
            /\ extracted = file.units

\* an archive of two members parsed to its end
C22_Witness ==
    /\ pc = "Done"
    /\ gen.func = "parse_zip"
    /\ file.units = << "a", "b" >>
    /\ extracted = << "a", "b" >>
    /\ outcome.value = "Extracted 1/2: a\nExtracted 2/2: b\n"

\* C23: the Zip extractor extracts eagerly: once it has been started on a
\* valid archive every member ends up below <path>_extracted, also when the
\* parse is aborted by ProcessingTimeoutError after an early chunk.
C23_EagerExtraction ==
    (pc = "Failed" /\ gen # NoGen /\ gen.func = "parse_zip"
        /\ outcome.err.cls = "ProcessingTimeoutError") =>
        extracted = file.units

\* what the call in progress has given, once it has ended
ThisCall == [outcome |-> outcome, func |-> parsing_func,
             directory |-> Directory(extracted)]

\* the calls that have ended, in order
EndedCalls == IF pc \in {"Done", "Failed"} THEN Append(previous, ThisCall) ELSE previous

\* C24: parse_file is idempotent on an unchanged file.  Of two successive
\* calls that both succeed, on a file given to the text or the DOCX extractor
\* the second returns the string the first returned, and on a ZIP archive the
\* second leaves <path>_extracted with the files the first left there; and
\* between calls nothing of the FileParser (its sniffer) or of the file changes.
C24_Idempotent ==
    /\ [](\A k \in 1..(Len(EndedCalls) - 1) :
            LET a == EndedCalls[k]
                b == EndedCalls[k + 1]
            IN  (a.outcome.kind = "ok" /\ b.outcome.kind = "ok") =>
                   /\ a.func = b.func
                   /\ a.func \in {"parse_text", "parse_docx"} =>
                          a.outcome.value = b.outcome.value
                   /\ a.func = "parse_zip" => a.directory = b.directory)
    /\ [][MAGIC_AVAILABLE' = MAGIC_AVAILABLE /\ file' = file]_vars

\* a two-member archive parsed twice to the end: four extractions, two files
C24_Witness ==
    /\ pc = "Done"
    /\ Len(previous) = 1
    /\ previous[1].outcome.kind = "ok"
    /\ parsing_func = "parse_zip"
    /\ extracted = << "a", "b", "a", "b" >>
    /\ Directory(extracted) = previous[1].directory

----------------------------------------------------------------------------
(* Properties of parse_xlsx, checked under XlsxSpec *)

\* the text of the cells of row from the k-th on: the cells that are not
\* blank, in column order, separated by " | "
RECURSIVE RowText(_, _)
RowText(row, k) ==
    IF k > Len(row) THEN ""
    ELSE LET rest == RowText(row, k + 1)
             anyLeft == \E q \in (k + 1)..Len(row) : row[q].t # "none"
         IN  IF row[k].t = "none" THEN rest
             ELSE CellStr(row[k]) \o (IF anyLeft THEN " | " ELSE "") \o rest

\* the rows of the sheets before the s-th
RowsBefore(sheets, s) == Sum([q \in 1..(s - 1) |-> Len(sheets[q].rows)])

\* C25: the Xlsx extractor yields one chunk per row, the sheets in workbook
\* order and the rows of a sheet in sheet order: row r of sheet s is the
\* chunk number (rows of the sheets before s) + r, and its text after the
\* label is the row's non-blank cells in column order, blank cells left out;
\* a successful parse has yielded as many chunks as the sheets have rows.
C25_XlsxRowPerChunk ==
    (gen # NoGen /\ gen.func = "parse_xlsx") =>
        LET sheets == file.sheets
            total  == RowsBefore(sheets, Len(sheets) + 1)
        IN  /\ Len(yielded) <= total
            /\ pc = "Done" => Len(yielded) = total
            /\ \A s \in 1..Len(sheets) : \A r \in 1..Len(sheets[s].rows) :
                  LET j == RowsBefore(sheets, s) + r
                  IN  j <= Len(yielded) =>
                        yielded[j] = "Sheet '" \o sheets[s].name \o "', Row "
                                        \o ToString(r) \o "/"
                                        \o ToString(Len(sheets[s].rows)) \o ": "
                                        \o RowText(sheets[s].rows[r], 1) \o "\n"

\* a workbook of two sheets of one row each, with blank cells and a zero
C25_Witness ==
    /\ pc = "Done"
    /\ gen.func = "parse_xlsx"
    /\ Len(file.sheets) = 2
    /\ outcome.value = "Sheet 'S', Row 1/1: a | 0\nSheet 'T', Row 1/1: b\n"

----------------------------------------------------------------------------
(* Properties of parse_pdf, parse_text and ocr_pdf_page *)

\* an image XObject PIL can build and the OCR engine reads: a JPEG stream, or
\* RGB or gray pixels of 8 bits or 1 bit
ReadableImage(x) ==
    /\ x.subtype = "/Image"
    /\ x.colorspace # None
    /\ \/ x.filter = "/DCTDecode"
       \/ x.colorspace \in {"/DeviceRGB", "/DeviceGray"} /\ x.bpc \in {8, 1}
    /\ x.decodes
    /\ x.engine = "ok"

\* a scanned page: the first of the page's XObjects is such an image
ScannedPage(page) ==
    page.has_resources /\ page.has_xobject /\ Len(page.xobjects) >= 1
        /\ ReadableImage(page.xobjects[1])

\* C26: for a PDF of n pages that can be opened, the chunks come one per
\* page in page order, the i-th beginning with the label "Page i/n: ", and a
\* successful parse has yielded exactly n; a page without a text layer is
\* counted like any other, and the chunk of a scanned page carries the OCR
\* reading of its embedded image after the label.
C26_PdfPagePerChunk ==
    (gen # NoGen /\ gen.func = "parse_pdf") =>
        LET n == Len(file.units)
        IN  /\ Len(yielded) <= n
            /\ pc = "Done" => Len(yielded) = n
            /\ \A i \in 1..Len(yielded) :
                  LET label == "Page " \o ToString(i) \o "/" \o ToString(n) \o ": "
                  IN  /\ Len(yielded[i]) >= Len(label)
                      /\ SubSeq(yielded[i], 1, Len(label)) = label
                      /\ (IsBlank(file.units[i]) /\ ScannedPage(file.res[i])) =>
                             yielded[i] = label \o file.res[i].xobjects[1].text \o "\n"

\* a PDF of a text page and a scanned page, parsed to its end
C26_Witness ==
    /\ pc = "Done"
    /\ file.units = << "a", "" >>
    /\ ScannedPage(file.res[2])
    /\ outcome.value = "Page 1/2: a\nPage 2/2: x\n"

\* the valid ones among the first k bytes, in order
RECURSIVE ValidPrefix(_, _)
ValidPrefix(bytes, k) ==
    IF k = 0 THEN ""
    ELSE ValidPrefix(bytes, k - 1)
            \o (IF SubSeq(bytes, k, k) = "#" THEN "" ELSE SubSeq(bytes, k, k))

\* C27: the PlainText extractor yields one chunk per line of the file, in
\* file order, each chunk being its line less the invalid bytes, so that
\* invalid bytes change neither the number of chunks nor their order; and it
\* never fails because of them: a parse that fails in the text extractor
\* fails on a read error or on the deadline.
C27_TextLinePerChunk ==
    (gen # NoGen /\ gen.func = "parse_text") =>
        LET n == Len(file.units)
        IN  /\ Len(yielded) <= n
            /\ pc = "Done" => Len(yielded) = n
            /\ \A i \in 1..Len(yielded) :
                  yielded[i] = ValidPrefix(file.units[i], Len(file.units[i])) \o "\n"
            /\ pc = "Failed" =>
                  \/ gen.raw = "OSError"
                  \/ outcome.err.cls = "ProcessingTimeoutError"

\* a file of two lines, both with invalid bytes, parsed to its end
C27_Witness ==
    /\ pc = "Done"
    /\ gen.func = "parse_text"
    /\ file.units = << "#a#b", "#" >>
    /\ outcome.value = "ab\n\n"

----------------------------------------------------------------------------
(* Properties of concurrent calls, checked under ConcSpec *)

\* What a call c that runs alone shows at every moment: its chunks are the
\* first chunks of its own file, its result is their concatenation, or at
\* the end what it returns; its progress counter has counted its own chunks;
\* the members it has extracted are the first of its own archive; and its
\* deadline is reckoned from the moment it passed line 111 itself.
AsWhenAlone(c) ==
    /\ c.result = Concat(c.yielded)
    /\ c.gen = NoGen => c.yielded = << >>
    /\ c.gen # NoGen =>
          /\ c.gen.func = c.parsing_func
          /\ Len(c.yielded) <= NumChunks(c.gen.func, c.file)
          /\ \A i \in 1..Len(c.yielded) : c.yielded[i] = Chunk(c.gen.func, c.file, i)
          /\ c.start_time = c.started_at
    /\ c.pc = "Done" =>
          /\ Len(c.yielded) = NumChunks(c.gen.func, c.file)
          /\ c.outcome = Returned(c.result)
          /\ c.pbar = PBAR_TOTAL
    /\ c.pc # "Done" => c.pbar = PBAR_STEP * Len(c.yielded)
    /\ c.extracted = IF c.parsing_func = "parse_zip"
                     THEN SubSeq(c.file.units, 1, Len(c.yielded))
                     ELSE << >>
    /\ (c.pc = "Failed" /\ c.outcome.err.cls = "ProcessingTimeoutError") =>
          c.checks = Len(c.yielded) /\ c.checks >= 1

Range(seq) == {seq[k] : k \in 1..Len(seq)}

\* what OCR reads in the readable images of a page, those among its XObjects
\* and those inside its Form XObjects at any depth
RECURSIVE ImageTexts(_)
ImageTexts(page) ==
    IF ~(page.has_resources /\ page.has_xobject) THEN {}
    ELSE UNION { IF ReadableImage(x) THEN {x.text}
                 ELSE IF x.subtype = "/Form"
                 THEN UNION { ImageTexts(tp) : tp \in Range(x.temp_pages) }
                 ELSE {} : x \in Range(page.xobjects) }

\* C29: ocr_pdf_page returns empty text only after exhausting both searches:
\* when a readable image exists among the page's image resources or inside
\* any of its Form XObjects, at any depth and in any position among sibling
\* forms, the text returned is the OCR reading of such an image; when there
\* is none, the text returned is empty.
C29_BothSearchesExhausted ==
    \A k \in 1..Len(ocr_calls) :
        LET texts == ImageTexts(file.res[ocr_calls[k].page])
        IN  IF texts = {} THEN ocr_calls[k].text = ""
            ELSE ocr_calls[k].text \in texts

\* how deep the Form XObjects of a page are nested
RECURSIVE FormDepth(_)
FormDepth(page) ==
    IF ~(page.has_resources /\ page.has_xobject) THEN 0
    ELSE LET depths == { IF x.subtype = "/Form"
                         THEN 1 + (IF x.temp_pages = << >> THEN 0
                                   ELSE FormDepth(x.temp_pages[1]))
                         ELSE 0 : x \in Range(page.xobjects) } \cup {0}
         IN  CHOOSE d \in depths : \A e \in depths : e <= d

\* C30: the recursive resolution of forms in ocr_pdf_page terminates: on a
\* page whose Form XObjects are nested to depth d it makes at most d nested
\* calls, and it returns a string, never None and never an exception.
C30_RecursionBounded ==
    \A k \in 1..Len(ocr_calls) :
        LET page == file.res[ocr_calls[k].page]
        IN  /\ NestedCalls(page) <= FormDepth(page)
            /\ ocr_calls[k].text # None
            /\ ocr_calls[k].text \in ImageTexts(page) \cup {""}

\* OCR was made of a page with a form within a form: two nested calls, the
\* inner one reading the image
C30_Witness ==
    /\ Len(ocr_calls) = 1
    /\ FormDepth(file.res[ocr_calls[1].page]) = 2
    /\ NestedCalls(file.res[ocr_calls[1].page]) = 2
    /\ ocr_calls[1].text = "t"

\* the extractor has handed over its last chunk
LastChunkTaken ==
    /\ parsing_func # None
    /\ Len(yielded) > 0
    /\ Len(yielded) = NumChunks(parsing_func, file)

\* C31: the deadline is checked after the last chunk too: once the extractor
\* has handed over its final chunk, an elapsed time over MAX_PROCESSING_TIME
\* means parse_file has failed with ProcessingTimeoutError and returned no
\* text although the whole text was aggregated, and an elapsed time of
\* MAX_PROCESSING_TIME or less (exactly MAX_PROCESSING_TIME included) means
\* it has not timed out.
C31_LastChunkDeadline ==
    LastChunkTaken =>
        /\ result = Concat(yielded)
        /\ now - start_time > MAX_PROCESSING_TIME =>
              /\ pc = "Failed"
              /\ outcome = Raised(Exc("ProcessingTimeoutError",
                                      "Processing time exceeded", Len(yielded)))
        /\ now - start_time <= MAX_PROCESSING_TIME =>
              /\ outcome.err.cls # "ProcessingTimeoutError"
              /\ pc = "Done" => outcome = Returned(Concat(yielded))

\* the time first ran out while the second and last chunk was produced: the
\* whole text was aggregated and the call failed
C31_Witness ==
    /\ LastChunkTaken
    /\ Len(yielded) = 2
    /\ checks = 2
    /\ now - start_time = MAX_PROCESSING_TIME + 1
    /\ pc = "Failed"
    /\ outcome.err.cls = "ProcessingTimeoutError"
    /\ result = Concat(yielded)

\* C32: an extractor that has nothing to yield (an empty text file, a PDF
\* without pages, an empty archive, a workbook without rows) never has the
\* deadline evaluated: no check is made, the call never fails with
\* ProcessingTimeoutError, and once the generator has ended without an error
\* parse_file has returned the empty string, however long ago the clock was
\* started.
C32_NoChunksNoDeadline ==
    (parsing_func # None /\ NumChunks(parsing_func, file) = 0) =>
        /\ checks = 0
        /\ yielded = << >>
        /\ outcome.err.cls # "ProcessingTimeoutError"
        /\ (gen.state = "finished" /\ gen.raw = "") =>
              /\ pc = "Done"
              /\ outcome = Returned("")

\* an empty file was parsed to the empty string although more than
\* MAX_PROCESSING_TIME had passed since the clock started
C32_Witness ==
    /\ parsing_func # None
    /\ NumChunks(parsing_func, file) = 0
    /\ pc = "Done"
    /\ outcome = Returned("")
    /\ now - start_time > MAX_PROCESSING_TIME

\* C33: the progress counter is 10 times the number of chunks consumed while
\* the loop runs (above its declared total of 100 after an eleventh chunk)
\* and exactly 100 once parse_file has returned, for any number of chunks;
\* the text returned is the concatenation of the chunks and a timeout is
\* raised exactly when the elapsed time at the last check is over
\* MAX_PROCESSING_TIME, whatever the counter shows.
C33_ProgressIsObservational ==
    /\ pc = "Extracting" => pbar = PBAR_STEP * Len(yielded)
    /\ pc = "Done" =>
          /\ pbar = PBAR_TOTAL
          /\ outcome = Returned(Concat(yielded))
          /\ Len(yielded) = Len(file.units)
    /\ (pc = "Failed" /\ parsing_func # None) =>
          /\ pbar = PBAR_STEP * Len(yielded)
          /\ (outcome.err.cls = "ProcessingTimeoutError")
                <=> (checks > 0 /\ now - start_time > MAX_PROCESSING_TIME)
    /\ (pc = "Extracting" /\ checks > 0) => now - start_time <= MAX_PROCESSING_TIME

\* a document of eleven paragraphs was returned whole: the counter had
\* reached 110 and stands at 100
C33_Witness ==
    /\ pc = "Done"
    /\ Len(yielded) = 11
    /\ PBAR_STEP * Len(yielded) > PBAR_TOTAL
    /\ pbar = PBAR_TOTAL
    /\ outcome = Returned(Concat(yielded))

\* C34: while an archive is parsed, extraction and chunks advance together:
\* when k chunks have been handed to the loop exactly the first k members
\* of the listing, in its order, have been written below <path>_extracted,
\* and when the parse has stopped after k chunks (by a timeout, or by an
\* error extracting member k + 1) no member after the (k + 1)-th has been
\* written.
C34_LockStep ==
    (gen # NoGen /\ gen.func = "parse_zip") =>
        LET k == Len(yielded)
        IN  /\ k <= Len(file.units)
            /\ extracted = SubSeq(file.units, 1, k)
            /\ gen.state = "suspended" => gen.pos = k
            /\ pc = "Failed" => Len(extracted) <= k + 1

\* the extraction of the second member of two failed: the first member is
\* in the directory, alone
C34_Witness ==
    /\ pc = "Failed"
    /\ gen.func = "parse_zip"
    /\ gen.raw = "OSError"
    /\ Len(yielded) = 1
    /\ Len(file.units) = 2
    /\ extracted = << file.units[1] >>

====
